---- MODULE Spec2Model ----
(***************************************************************************)
(* Supplements Encyclopedia: the evidence scoring engine (js/evidence.js)  *)
(* and the stack builder with its composition analyzer                     *)
(* (js/stack-builder.js).                                                  *)
(*                                                                         *)
(* Numbers.  rawScore returns a multiple of 0.2, so the model carries it   *)
(* in fifths of a point (raw5 = 5 * raw), which is an integer.             *)
(* Strings are sequences of one-character strings, so that toLowerCase,    *)
(* includes, split and substring are computed and not assumed.             *)
(* A JavaScript exception is the value Throw; an absent property is a      *)
(* field that is not in the DOMAIN of the record.                          *)
(***************************************************************************)
EXTENDS Integers, Sequences, FiniteSets, TLC

VARIABLES
    allSupplements,         \* the catalog items, as loadData stored them
    allCategories,          \* the category table
    selectedSupplements,    \* the selection: entries {supplement, config}
    savedStacks,            \* the saved stacks
    currentStackName,
    currentStackId,
    expandedConfigId,       \* the item whose config panel is open
    analysis,               \* what analyzeStack returned to the last renderPage
    evidence,               \* the counts record handed to EvidenceScoring
    assessment,             \* what EvidenceScoring.assess returned for it
    catSupplements,         \* the array handed to EvidenceScoring.sortByEvidence
    sortedByEvidence,       \* the array sortByEvidence returned
    localStorage,           \* what localStorage holds under STORAGE_KEY
    clock,                  \* the time Date.now() returns
    sharedConfigs           \* the pairs <<stack id, item id>> for which the saved
                            \* stack's config of the item is the very object that
                            \* is the config of the selected item

vars == <<allSupplements, allCategories, selectedSupplements, savedStacks,
          currentStackName, currentStackId, expandedConfigId, analysis,
          evidence, assessment, catSupplements, sortedByEvidence,
          localStorage, clock, sharedConfigs>>

(***************************************************************************)
(* Bounds                                                                  *)
(***************************************************************************)
\* every count 0..MaxCount is an input of the scoring engine
MaxCount == 3

\* larger counts: those of the documented example (5, 10, 50, 200) and the
\* first number of meta-analyses whose score rounds to 100
Landmarks == {5, 10, 50, 106, 200}

Counts == (0 .. MaxCount) \cup Landmarks

(***************************************************************************)
(* EvidenceScoring                                                         *)
(***************************************************************************)
Idle == [kind |-> "idle"]

ScoredFields == {"metaAnalyses", "systematicReviews", "rcts", "humanStudies"}

CountFields == ScoredFields \cup {"totalStudies"}

\* WEIGHTS, in fifths of a point: 10, 6, 2 and 0.2
WEIGHTS ==
    [metaAnalyses |-> 50, systematicReviews |-> 30, rcts |-> 10, humanStudies |-> 1]

NORM_FACTOR == 200

\* a slip: (evidence.f || 1)
OrOne(ev, f) == IF f \in DOMAIN ev /\ ev[f] # 0 THEN ev[f] ELSE 1

\* (evidence.f || 0): an absent field, like a zero one, counts 0
OrZero(ev, f) == IF f \in DOMAIN ev THEN ev[f] ELSE 0

\* a slip: the weights of systematic reviews and RCTs are exchanged
rawScoreSwapped(ev) ==
      OrZero(ev, "metaAnalyses")      * WEIGHTS.metaAnalyses
    + OrZero(ev, "systematicReviews") * WEIGHTS.rcts
    + OrZero(ev, "rcts")              * WEIGHTS.systematicReviews
    + OrZero(ev, "humanStudies")      * WEIGHTS.humanStudies

\* a slip: the human studies are subtracted
rawScoreMinus(ev) ==
      OrZero(ev, "metaAnalyses")      * WEIGHTS.metaAnalyses
    + OrZero(ev, "systematicReviews") * WEIGHTS.systematicReviews
    + OrZero(ev, "rcts")              * WEIGHTS.rcts
    - OrZero(ev, "humanStudies")      * WEIGHTS.humanStudies

\* a slip: the weight of a meta-analysis is read as 1, not 10
rawScoreMeta1(ev) ==
      OrZero(ev, "metaAnalyses")      * 5
    + OrZero(ev, "systematicReviews") * WEIGHTS.systematicReviews
    + OrZero(ev, "rcts")              * WEIGHTS.rcts
    + OrZero(ev, "humanStudies")      * WEIGHTS.humanStudies

\* rawScore(evidence), in fifths of a point
rawScore(ev) ==
      OrZero(ev, "metaAnalyses")      * WEIGHTS.metaAnalyses
    + OrZero(ev, "systematicReviews") * WEIGHTS.systematicReviews
    + OrZero(ev, "rcts")              * WEIGHTS.rcts
    + OrZero(ev, "humanStudies")      * WEIGHTS.humanStudies

\* ScoreThreshold[k] is the least t with Math.round(100 * (1 - e^(-t/1000))) >= k,
\* that is ceil(-1000 * ln(1 - (2k-1)/200)): Math.round rounds k - 1/2 up to k.
ScoreThreshold ==
    <<    6,   16,   26,   36,   47,   57,   68,   78,   89,  100,
        111,  123,  134,  146,  157,  169,  181,  193,  205,  217,
        230,  243,  255,  268,  282,  295,  308,  322,  336,  350,
        364,  379,  394,  408,  424,  439,  455,  471,  487,  503,
        520,  537,  554,  571,  589,  607,  626,  645,  664,  684,
        704,  724,  745,  766,  788,  810,  833,  856,  880,  904,
        929,  955,  981, 1008, 1036, 1065, 1094, 1124, 1156, 1188,
       1221, 1256, 1291, 1329, 1367, 1407, 1449, 1492, 1538, 1585,
       1635, 1688, 1743, 1802, 1865, 1932, 2003, 2080, 2163, 2254,
       2354, 2466, 2591, 2734, 2901, 3102, 3353, 3689, 4200, 5299 >>

\* the number of thresholds not above t, all of ScoreThreshold[1 .. lo-1] and
\* none of ScoreThreshold[hi+1 ..] being so (the thresholds ascend).  t is in
\* thousandths times NORM_FACTOR, which keeps the comparison in integers.
RECURSIVE ThresholdsUpTo(_, _, _)
ThresholdsUpTo(t, lo, hi) ==
    IF lo > hi THEN lo - 1
    ELSE LET mid == (lo + hi) \div 2
         IN  IF ScoreThreshold[mid] * NORM_FACTOR <= t
             THEN ThresholdsUpTo(t, mid + 1, hi)
             ELSE ThresholdsUpTo(t, lo, mid - 1)

\* Math.round(100 * (1 - Math.exp(-raw / NORM_FACTOR))) for raw = raw5 / 5:
\* the exponent raw/NORM_FACTOR is raw5 * 200 / NORM_FACTOR thousandths
ScoreOfRaw(raw5) == ThresholdsUpTo(raw5 * 200, 1, Len(ScoreThreshold))

calculateScore(ev) == ScoreOfRaw(rawScore(ev))

\* a slip: score > 90 for the top tier
getTierStrict(score) ==
    IF score > 90 THEN [tier |-> "S", label |-> "Gold Standard"]
    ELSE IF score >= 70 THEN [tier |-> "A", label |-> "Strong Evidence"]
    ELSE IF score >= 50 THEN [tier |-> "B", label |-> "Moderate Evidence"]
    ELSE IF score >= 30 THEN [tier |-> "C", label |-> "Emerging Evidence"]
    ELSE [tier |-> "D", label |-> "Preliminary"]

getTier(score) ==
    IF score >= 90 THEN [tier |-> "S", label |-> "Gold Standard"]
    ELSE IF score >= 70 THEN [tier |-> "A", label |-> "Strong Evidence"]
    ELSE IF score >= 50 THEN [tier |-> "B", label |-> "Moderate Evidence"]
    ELSE IF score >= 30 THEN [tier |-> "C", label |-> "Emerging Evidence"]
    ELSE [tier |-> "D", label |-> "Preliminary"]

\* Math.round of a non-negative number given in fifths
RoundFifths(raw5) == (2 * raw5 + 5) \div 10

assess(ev) ==
    LET score == calculateScore(ev)
        tierInfo == getTier(score)
    IN  [kind |-> "assessment",
         score |-> score,
         tier |-> tierInfo.tier,
         label |-> tierInfo.label,
         breakdown |->
            [totalStudies      |-> OrZero(ev, "totalStudies"),
             humanStudies      |-> OrZero(ev, "humanStudies"),
             rcts              |-> OrZero(ev, "rcts"),
             metaAnalyses      |-> OrZero(ev, "metaAnalyses"),
             systematicReviews |-> OrZero(ev, "systematicReviews"),
             rawWeighted       |-> RoundFifths(rawScore(ev))]]

(***************************************************************************)
(* Strings                                                                 *)
(***************************************************************************)
LowerOf ==
    [A |-> "a", B |-> "b", C |-> "c", D |-> "d", E |-> "e", F |-> "f", G |-> "g",
     H |-> "h", I |-> "i", J |-> "j", K |-> "k", L |-> "l", M |-> "m", N |-> "n",
     O |-> "o", P |-> "p", Q |-> "q", R |-> "r", S |-> "s", T |-> "t", U |-> "u",
     V |-> "v", W |-> "w", X |-> "x", Y |-> "y", Z |-> "z"]

\* String.prototype.toLowerCase
toLowerCase(s) ==
    [i \in 1 .. Len(s) |-> IF s[i] \in DOMAIN LowerOf THEN LowerOf[s[i]] ELSE s[i]]

\* String.prototype.includes: sub occurs in s (the empty string occurs in every string)
includes(s, sub) ==
    \E i \in 1 .. (Len(s) - Len(sub) + 1) :
        \A j \in 1 .. Len(sub) : s[i + j - 1] = sub[j]

\* s.split(' ')[0]: the text before the first space
FirstToken(s) ==
    LET spaces == {i \in 1 .. Len(s) : s[i] = " "}
    IN  IF spaces = {} THEN s
        ELSE SubSeq(s, 1, (CHOOSE i \in spaces : \A j \in spaces : i <= j) - 1)

(***************************************************************************)
(* Catalog data (data/supplements.json, data/categories.json).  The item   *)
(* objects are immutable, so allSupplements holds their ids, in file       *)
(* order, and ItemRecord gives the object of an id.  The items of Catalog  *)
(* follow the documented schema; glycine has no interactions list and      *)
(* magnesium lacks some evidence counts, which the code allows for.        *)
(* taurine, glycine and magnesium have benefits that agree in their first  *)
(* 40 characters up to case, or in the first 38 only; nac lists a category *)
(* that the category table does not have.                                  *)
(***************************************************************************)
Elvanse ==
    [id |-> "elvanse",
     name |-> <<"E", "l", "v", "a", "n", "s", "e", " ", "(", "L", "D", "X", ")">>,
     aliases |-> << <<"V", "y", "v", "a", "n", "s", "e">>, <<"L", "i", "s", "d", "e", "x", "a", "m", "f", "e", "t", "a", "m", "i", "n", "e">> >>,
     categories |-> <<"cognitive", "medication">>,
     mechanismOfAction |-> <<"P", "r", "o", "d", "r", "u", "g", " ", "o", "f", " ", "d", "e", "x", "t", "r", "o", "a", "m", "p", "h", "e", "t", "a", "m", "i", "n", "e", ";", " ", "d", "o", "p", "a", "m", "i", "n", "e", " ", "r", "e", "l", "e", "a", "s", "e">>,
     dosage |-> [standard |-> "30-70 mg", optimal |-> "30 mg", timing |-> "Morning"],
     benefits |-> << <<"I", "m", "p", "r", "o", "v", "e", "s", " ", "f", "o", "c", "u", "s">>, <<"R", "e", "d", "u", "c", "e", "s", " ", "i", "m", "p", "u", "l", "s", "i", "v", "i", "t", "y">> >>,
     sideEffects |-> << <<"I", "n", "s", "o", "m", "n", "i", "a">>, <<"R", "e", "d", "u", "c", "e", "d", " ", "a", "p", "p", "e", "t", "i", "t", "e">> >>,
     interactions |->
        << [substance |-> <<"T", "r", "a", "z", "o", "d", "o", "n", "e">>, effect |-> "Often co-prescribed; monitor", severity |-> "moderate"],
           [substance |-> <<"M", "A", "O", " ", "i", "n", "h", "i", "b", "i", "t", "o", "r", "s">>, effect |-> "Hypertensive crisis", severity |-> "severe"] >>,
     evidence |-> [totalStudies |-> 500, humanStudies |-> 200, rcts |-> 50,
                   metaAnalyses |-> 5, systematicReviews |-> 10]]

Trazodone ==
    [id |-> "trazodone",
     name |-> <<"T", "r", "a", "z", "o", "d", "o", "n", "e">>,
     aliases |-> << <<"D", "e", "s", "y", "r", "e", "l">> >>,
     categories |-> <<"sleep", "mood", "medication">>,
     mechanismOfAction |-> <<"S", "e", "r", "o", "t", "o", "n", "i", "n", " ", "5", "-", "H", "T", "2", "A", " ", "a", "n", "t", "a", "g", "o", "n", "i", "s", "t">>,
     dosage |-> [standard |-> "25-100 mg", optimal |-> "50 mg", timing |-> "Bedtime"],
     benefits |-> << <<"I", "m", "p", "r", "o", "v", "e", "s", " ", "s", "l", "e", "e", "p">> >>,
     sideEffects |-> << <<"D", "r", "o", "w", "s", "i", "n", "e", "s", "s">>, <<"I", "n", "s", "o", "m", "n", "i", "a">> >>,
     interactions |->
        << [substance |-> <<"A", "l", "c", "o", "h", "o", "l">>, effect |-> "Additive sedation", severity |-> "moderate"] >>,
     evidence |-> [totalStudies |-> 200, humanStudies |-> 106, rcts |-> 50,
                   metaAnalyses |-> 3, systematicReviews |-> 2]]

Ritalin ==
    [id |-> "ritalin",
     name |-> <<"R", "i", "t", "a", "l", "i", "n", " ", "(", "M", "P", "H", ")">>,
     aliases |-> << <<"M", "e", "t", "h", "y", "l", "p", "h", "e", "n", "i", "d", "a", "t", "e">> >>,
     categories |-> <<"cognitive", "medication">>,
     mechanismOfAction |-> <<"D", "o", "p", "a", "m", "i", "n", "e", " ", "r", "e", "u", "p", "t", "a", "k", "e", " ", "i", "n", "h", "i", "b", "i", "t", "o", "r">>,
     dosage |-> [standard |-> "10-60 mg", optimal |-> "20 mg", timing |-> "Morning"],
     benefits |-> << <<"I", "m", "p", "r", "o", "v", "e", "s", " ", "f", "o", "c", "u", "s">> >>,
     sideEffects |-> << <<"I", "n", "s", "o", "m", "n", "i", "a">> >>,
     interactions |->
        << [substance |-> <<"E", "l", "v", "a", "n", "s", "e">>, effect |-> "Additive stimulant load", severity |-> "severe"] >>,
     evidence |-> [totalStudies |-> 500, humanStudies |-> 200, rcts |-> 106,
                   metaAnalyses |-> 10, systematicReviews |-> 10]]

Nac ==
    [id |-> "nac",
     name |-> <<"N", "A", "C", " ", "(", "N", "-", "A", "c", "e", "t", "y", "l", " ", "C", "y", "s", "t", "e", "i", "n", "e", ")">>,
     aliases |-> << <<"N", "-", "A", "c", "e", "t", "y", "l", "c", "y", "s", "t", "e", "i", "n", "e">> >>,
     categories |-> <<"longevity", "liver-health">>,
     mechanismOfAction |-> <<"C", "y", "s", "t", "e", "i", "n", "e", " ", "d", "o", "n", "o", "r", " ", "f", "o", "r", " ", "g", "l", "u", "t", "a", "t", "h", "i", "o", "n", "e">>,
     dosage |-> [standard |-> "600-1800 mg", optimal |-> "1200 mg", timing |-> "With food"],
     benefits |-> << <<"R", "a", "i", "s", "e", "s", " ", "g", "l", "u", "t", "a", "t", "h", "i", "o", "n", "e">> >>,
     sideEffects |-> << <<"N", "a", "u", "s", "e", "a">> >>,
     interactions |->
        << [substance |-> <<"N", "i", "t", "r", "o", "g", "l", "y", "c", "e", "r", "i", "n">>, effect |-> "Headache, hypotension", severity |-> "moderate"] >>,
     evidence |-> [totalStudies |-> 200, humanStudies |-> 50, rcts |-> 10,
                   metaAnalyses |-> 2, systematicReviews |-> 1]]

Glycine ==
    [id |-> "glycine",
     name |-> <<"G", "l", "y", "c", "i", "n", "e">>,
     aliases |-> << >>,
     categories |-> <<"sleep", "recovery">>,
     mechanismOfAction |-> <<"I", "n", "h", "i", "b", "i", "t", "o", "r", "y", " ", "n", "e", "u", "r", "o", "t", "r", "a", "n", "s", "m", "i", "t", "t", "e", "r">>,
     dosage |-> [standard |-> "3 g", optimal |-> "3 g", timing |-> "Bedtime"],
     benefits |-> << <<"I", "m", "p", "r", "o", "v", "e", "s", " ", "s", "l", "e", "e", "p">>,
                     <<"S", "U", "P", "P", "O", "R", "T", "S", " ", "E", "x", "e", "r", "c", "i", "s", "e", " ", "R", "e", "c", "o", "v", "e", "r", "y", " ", "A", "n", "d", " ", "M", "u", "s", "c", "l", "e", " ", "E", "n", "z", "y", "m", "e", "s">> >>,
     sideEffects |-> << <<"N", "a", "u", "s", "e", "a">> >>,
     evidence |-> [totalStudies |-> 50, humanStudies |-> 10, rcts |-> 5,
                   metaAnalyses |-> 0, systematicReviews |-> 0]]

Magnesium ==
    [id |-> "magnesium",
     name |-> <<"M", "a", "g", "n", "e", "s", "i", "u", "m">>,
     aliases |-> << <<"M", "a", "g", "n", "e", "s", "i", "u", "m", " ", "G", "l", "y", "c", "i", "n", "a", "t", "e">> >>,
     categories |-> <<"sleep", "recovery", "foundational">>,
     mechanismOfAction |-> <<"N", "M", "D", "A", " ", "a", "n", "t", "a", "g", "o", "n", "i", "s", "t">>,
     dosage |-> [standard |-> "200-400 mg", optimal |-> "300 mg", timing |-> "Evening"],
     benefits |-> << <<"I", "m", "p", "r", "o", "v", "e", "s", " ", "s", "l", "e", "e", "p">>, <<"R", "e", "d", "u", "c", "e", "s", " ", "c", "r", "a", "m", "p", "s">>,
                     <<"S", "u", "p", "p", "o", "r", "t", "s", " ", "e", "x", "e", "r", "c", "i", "s", "e", " ", "r", "e", "c", "o", "v", "e", "r", "y", " ", "a", "n", "d", " ", "m", "u", "s", "c", "l", "e", " ", "r", "e", "l", "a", "x", "a", "t", "i", "o", "n">> >>,
     sideEffects |-> << <<"L", "o", "o", "s", "e", " ", "s", "t", "o", "o", "l", "s">> >>,
     interactions |->
        << [substance |-> <<"T", "r", "a", "z", "o", "d", "o", "n", "e">>, effect |-> "Additive relaxation", severity |-> "mild"] >>,
     evidence |-> [humanStudies |-> 200, rcts |-> 106, metaAnalyses |-> 50]]

Taurine ==
    [id |-> "taurine",
     name |-> <<"T", "a", "u", "r", "i", "n", "e">>,
     aliases |-> << <<"2", "-", "a", "m", "i", "n", "o", "e", "t", "h", "a", "n", "e", "s", "u", "l", "f", "o", "n", "i", "c", " ", "a", "c", "i", "d">> >>,
     categories |-> <<"recovery", "performance">>,
     mechanismOfAction |-> <<"G", "A", "B", "A", "-", "A", " ", "a", "g", "o", "n", "i", "s", "t">>,
     dosage |-> [standard |-> "1-3 g", optimal |-> "2 g", timing |-> "Any time"],
     benefits |-> << <<"S", "u", "p", "p", "o", "r", "t", "s", " ", "e", "x", "e", "r", "c", "i", "s", "e", " ", "r", "e", "c", "o", "v", "e", "r", "y", " ", "a", "n", "d", " ", "m", "u", "s", "c", "l", "e", " ", "e", "n", "d", "u", "r", "a", "n", "c", "e", " ", "i", "n", " ", "a", "t", "h", "l", "e", "t", "e", "s">>,
                     <<"S", "u", "p", "p", "o", "r", "t", "s", " ", "e", "x", "e", "r", "c", "i", "s", "e", " ", "r", "e", "c", "o", "v", "e", "r", "y", " ", "a", "n", "d", " ", "m", "u", "s", "c", "l", "e", " ", "e", "n", "e", "r", "g", "y">> >>,
     sideEffects |-> << >>,
     interactions |-> << >>,
     evidence |-> [totalStudies |-> 106, humanStudies |-> 95, rcts |-> 10,
                   metaAnalyses |-> 1, systematicReviews |-> 1]]

\* items that lack part of the schema, one part each
Plain(id, name) ==
    [id |-> id,
     name |-> name,
     aliases |-> << >>,
     categories |-> <<"mood">>,
     mechanismOfAction |-> <<"U", "n", "k", "n", "o", "w", "n">>,
     dosage |-> [standard |-> "1 g", optimal |-> "1 g", timing |-> "Morning"],
     benefits |-> << <<"C", "a", "l", "m", "i", "n", "g">> >>,
     sideEffects |-> << <<"N", "a", "u", "s", "e", "a">> >>,
     interactions |-> << >>,
     evidence |-> [totalStudies |-> 10, humanStudies |-> 5, rcts |-> 1]]

Without(r, field) == [f \in DOMAIN r \ {field} |-> r[f]]

NoAliases == Without(Plain("no-aliases", <<"H", "e", "r", "b", " ", "A">>), "aliases")

NoMechanism == Without(Plain("no-mechanism", <<"H", "e", "r", "b", " ", "M">>), "mechanismOfAction")

NoBenefits == Without(Plain("no-benefits", <<"H", "e", "r", "b", " ", "B">>), "benefits")

NoSideEffects == Without(Plain("no-side-effects", <<"H", "e", "r", "b", " ", "S">>), "sideEffects")

NoEvidence == Without(Plain("no-evidence", <<"H", "e", "r", "b", " ", "E">>), "evidence")

NoSubstance ==
    [Plain("no-substance", <<"H", "e", "r", "b", " ", "X">>) EXCEPT
        !.interactions = << [effect |-> "Unknown", severity |-> "mild"] >>]

\* an item with a declaration whose severity is none of mild, moderate and
\* severe, followed by a severe one
OddSeverity ==
    [Plain("odd-severity", <<"H", "e", "r", "b", " ", "Q">>) EXCEPT
        !.interactions =
            << [substance |-> <<"E", "l", "v", "a", "n", "s", "e">>, effect |-> "Unknown", severity |-> "caution"],
               [substance |-> <<"T", "r", "a", "z", "o", "d", "o", "n", "e">>, effect |-> "Additive sedation", severity |-> "severe"] >>]

\* items whose interaction declarations are reciprocal (caffeine and
\* l-theanine name each other; the two magnesium salts both declare
\* Magnesium) or match two items (caffeine declares Magnesium)
Caffeine ==
    [id |-> "caffeine",
     name |-> <<"C", "a", "f", "f", "e", "i", "n", "e">>,
     aliases |-> << <<"C", "o", "f", "f", "e", "e">> >>,
     categories |-> <<"performance", "cognitive">>,
     mechanismOfAction |-> <<"A", "d", "e", "n", "o", "s", "i", "n", "e", " ", "r", "e", "c", "e", "p", "t", "o", "r", " ", "a", "n", "t", "a", "g", "o", "n", "i", "s", "t">>,
     dosage |-> [standard |-> "200 mg", optimal |-> "200 mg", timing |-> "Morning"],
     benefits |-> << <<"R", "a", "i", "s", "e", "s", " ", "a", "l", "e", "r", "t", "n", "e", "s", "s">> >>,
     sideEffects |-> << <<"J", "i", "t", "t", "e", "r", "s">> >>,
     interactions |->
        << [substance |-> <<"L", "-", "T", "h", "e", "a", "n", "i", "n", "e">>, effect |-> "Smoother stimulation", severity |-> "mild"],
           [substance |-> <<"M", "a", "g", "n", "e", "s", "i", "u", "m">>, effect |-> "Caffeine raises magnesium excretion", severity |-> "moderate"] >>,
     evidence |-> [totalStudies |-> 500, humanStudies |-> 200, rcts |-> 50,
                   metaAnalyses |-> 10, systematicReviews |-> 5]]

LTheanine ==
    [id |-> "l-theanine",
     name |-> <<"L", "-", "T", "h", "e", "a", "n", "i", "n", "e">>,
     aliases |-> << <<"T", "h", "e", "a", "n", "i", "n", "e">> >>,
     categories |-> <<"mood", "sleep">>,
     mechanismOfAction |-> <<"R", "a", "i", "s", "e", "s", " ", "a", "l", "p", "h", "a", " ", "w", "a", "v", "e", " ", "a", "c", "t", "i", "v", "i", "t", "y">>,
     dosage |-> [standard |-> "200 mg", optimal |-> "200 mg", timing |-> "Morning"],
     benefits |-> << <<"C", "a", "l", "m", " ", "f", "o", "c", "u", "s">> >>,
     sideEffects |-> << <<"H", "e", "a", "d", "a", "c", "h", "e">> >>,
     interactions |->
        << [substance |-> <<"C", "a", "f", "f", "e", "i", "n", "e">>, effect |-> "Smoother stimulation", severity |-> "mild"] >>,
     evidence |-> [totalStudies |-> 50, humanStudies |-> 10, rcts |-> 5,
                   metaAnalyses |-> 1, systematicReviews |-> 1]]

MagnesiumGlycinate ==
    [id |-> "magnesium-glycinate",
     name |-> <<"M", "a", "g", "n", "e", "s", "i", "u", "m", " ", "G", "l", "y", "c", "i", "n", "a", "t", "e">>,
     aliases |-> << <<"M", "g", " ", "b", "i", "s", "g", "l", "y", "c", "i", "n", "a", "t", "e">> >>,
     categories |-> <<"sleep", "foundational">>,
     mechanismOfAction |-> <<"N", "M", "D", "A", " ", "a", "n", "t", "a", "g", "o", "n", "i", "s", "t">>,
     dosage |-> [standard |-> "200 mg", optimal |-> "200 mg", timing |-> "Morning"],
     benefits |-> << <<"I", "m", "p", "r", "o", "v", "e", "s", " ", "s", "l", "e", "e", "p">> >>,
     sideEffects |-> << <<"L", "o", "o", "s", "e", " ", "s", "t", "o", "o", "l", "s">> >>,
     interactions |->
        << [substance |-> <<"M", "a", "g", "n", "e", "s", "i", "u", "m">>, effect |-> "Doses of magnesium add up", severity |-> "mild"] >>,
     evidence |-> [totalStudies |-> 200, humanStudies |-> 50, rcts |-> 10,
                   metaAnalyses |-> 2, systematicReviews |-> 1]]

MagnesiumCitrate ==
    [id |-> "magnesium-citrate",
     name |-> <<"M", "a", "g", "n", "e", "s", "i", "u", "m", " ", "C", "i", "t", "r", "a", "t", "e">>,
     aliases |-> << >>,
     categories |-> <<"recovery", "foundational">>,
     mechanismOfAction |-> <<"O", "s", "m", "o", "t", "i", "c", " ", "l", "a", "x", "a", "t", "i", "v", "e">>,
     dosage |-> [standard |-> "200 mg", optimal |-> "200 mg", timing |-> "Morning"],
     benefits |-> << <<"R", "e", "d", "u", "c", "e", "s", " ", "c", "r", "a", "m", "p", "s">> >>,
     sideEffects |-> << <<"L", "o", "o", "s", "e", " ", "s", "t", "o", "o", "l", "s">> >>,
     interactions |->
        << [substance |-> <<"M", "a", "g", "n", "e", "s", "i", "u", "m">>, effect |-> "Doses of magnesium add up", severity |-> "mild"] >>,
     evidence |-> [totalStudies |-> 106, humanStudies |-> 50, rcts |-> 10,
                   metaAnalyses |-> 1, systematicReviews |-> 0]]

\* an item with a declaration whose substance is the empty string
EmptySubstance ==
    [Plain("empty-substance", <<"H", "e", "r", "b", " ", "Z">>) EXCEPT
        !.interactions = << [substance |-> << >>, effect |-> "Unknown", severity |-> "mild"] >>]

\* items for the warning rules: huperzine-a is cholinergic by its id and
\* galantamine by its mechanism text; 5-htp and st-johns-wort are
\* serotonergic by their mechanism texts ('Serotonin', '5-HT')
HuperzineA ==
    [id |-> "huperzine-a",
     name |-> <<"H", "u", "p", "e", "r", "z", "i", "n", "e", " ", "A">>,
     aliases |-> << <<"H", "u", "p", "A">> >>,
     categories |-> <<"cognitive">>,
     mechanismOfAction |-> <<"R", "a", "i", "s", "e", "s", " ", "a", "c", "e", "t", "y", "l", "c", "h", "o", "l", "i", "n", "e">>,
     dosage |-> [standard |-> "100 mg", optimal |-> "100 mg", timing |-> "Morning"],
     benefits |-> << <<"S", "u", "p", "p", "o", "r", "t", "s", " ", "m", "e", "m", "o", "r", "y">> >>,
     sideEffects |-> << <<"N", "a", "u", "s", "e", "a">> >>,
     interactions |->
        << [substance |-> <<"G", "a", "l", "a", "n", "t", "a", "m", "i", "n", "e">>, effect |-> "Cholinergic overload", severity |-> "severe"] >>,
     evidence |-> [totalStudies |-> 50, humanStudies |-> 10, rcts |-> 5,
                   metaAnalyses |-> 1, systematicReviews |-> 1]]

Galantamine ==
    [id |-> "galantamine",
     name |-> <<"G", "a", "l", "a", "n", "t", "a", "m", "i", "n", "e">>,
     aliases |-> << <<"R", "a", "z", "a", "d", "y", "n", "e">> >>,
     categories |-> <<"cognitive", "medication">>,
     mechanismOfAction |-> <<"A", "c", "e", "t", "y", "l", "c", "h", "o", "l", "i", "n", "e", "s", "t", "e", "r", "a", "s", "e", " ", "i", "n", "h", "i", "b", "i", "t", "o", "r">>,
     dosage |-> [standard |-> "100 mg", optimal |-> "100 mg", timing |-> "Morning"],
     benefits |-> << <<"S", "u", "p", "p", "o", "r", "t", "s", " ", "m", "e", "m", "o", "r", "y">> >>,
     sideEffects |-> << <<"N", "a", "u", "s", "e", "a">> >>,
     interactions |->
        << >>,
     evidence |-> [totalStudies |-> 200, humanStudies |-> 50, rcts |-> 10,
                   metaAnalyses |-> 3, systematicReviews |-> 2]]

FiveHTP ==
    [id |-> "5-htp",
     name |-> <<"5", "-", "H", "T", "P">>,
     aliases |-> << <<"O", "x", "i", "t", "r", "i", "p", "t", "a", "n">> >>,
     categories |-> <<"mood", "sleep">>,
     mechanismOfAction |-> <<"S", "e", "r", "o", "t", "o", "n", "i", "n", " ", "p", "r", "e", "c", "u", "r", "s", "o", "r">>,
     dosage |-> [standard |-> "100 mg", optimal |-> "100 mg", timing |-> "Morning"],
     benefits |-> << <<"L", "i", "f", "t", "s", " ", "m", "o", "o", "d">> >>,
     sideEffects |-> << <<"N", "a", "u", "s", "e", "a">> >>,
     interactions |->
        << [substance |-> <<"T", "r", "a", "z", "o", "d", "o", "n", "e">>, effect |-> "Serotonin syndrome", severity |-> "severe"] >>,
     evidence |-> [totalStudies |-> 50, humanStudies |-> 10, rcts |-> 5,
                   metaAnalyses |-> 1, systematicReviews |-> 0]]

StJohnsWort ==
    [id |-> "st-johns-wort",
     name |-> <<"H", "y", "p", "e", "r", "i", "c", "u", "m">>,
     aliases |-> << <<"S", "t", " ", "J", "o", "h", "n", "s", " ", "W", "o", "r", "t">> >>,
     categories |-> <<"mood">>,
     mechanismOfAction |-> <<"I", "n", "h", "i", "b", "i", "t", "s", " ", "r", "e", "u", "p", "t", "a", "k", "e", " ", "o", "f", " ", "5", "-", "H", "T">>,
     dosage |-> [standard |-> "100 mg", optimal |-> "100 mg", timing |-> "Morning"],
     benefits |-> << <<"L", "i", "f", "t", "s", " ", "m", "o", "o", "d">> >>,
     sideEffects |-> << <<"P", "h", "o", "t", "o", "s", "e", "n", "s", "i", "t", "i", "v", "i", "t", "y">> >>,
     interactions |->
        << [substance |-> <<"A", "l", "c", "o", "h", "o", "l">>, effect |-> "Additive sedation", severity |-> "mild"] >>,
     evidence |-> [totalStudies |-> 200, humanStudies |-> 50, rcts |-> 10,
                   metaAnalyses |-> 5, systematicReviews |-> 3]]

ItemRecords ==
    <<Elvanse, Trazodone, Ritalin, Nac, Glycine, Magnesium, Taurine,
      NoAliases, NoMechanism, NoBenefits, NoSideEffects, NoEvidence, NoSubstance,
      Caffeine, LTheanine, MagnesiumGlycinate, MagnesiumCitrate, EmptySubstance,
      HuperzineA, Galantamine, FiveHTP, StJohnsWort, OddSeverity>>

\* the object of the item with this id
ItemRecord(id) == ItemRecords[CHOOSE i \in DOMAIN ItemRecords : ItemRecords[i].id = id]

\* a supplements.json that follows the schema
Catalog == <<"elvanse", "trazodone", "ritalin", "nac", "glycine", "magnesium", "taurine">>

\* a supplements.json with items that lack part of the schema, or have a
\* severity outside its enumeration
MalformedCatalog ==
    <<"elvanse", "trazodone", "no-aliases", "no-mechanism", "no-benefits",
      "no-side-effects", "no-evidence", "no-substance", "odd-severity">>

\* a supplements.json for the interaction matcher
InteractionCatalog ==
    <<"caffeine", "l-theanine", "magnesium-glycinate", "magnesium-citrate",
      "empty-substance", "no-substance">>

\* a supplements.json of eleven items, for the warning rules
LargeCatalog ==
    <<"elvanse", "ritalin", "trazodone", "huperzine-a", "galantamine", "5-htp",
      "st-johns-wort", "nac", "glycine", "magnesium", "taurine">>

Categories ==
    << [id |-> "sleep",        name |-> "Sleep & Recovery"],
       [id |-> "cognitive",    name |-> "Focus & Cognition"],
       [id |-> "performance",  name |-> "Performance & Energy"],
       [id |-> "longevity",    name |-> "Longevity & Anti-Aging"],
       [id |-> "mood",         name |-> "Mood & Stress"],
       [id |-> "recovery",     name |-> "Recovery & Repair"],
       [id |-> "foundational", name |-> "Foundational Health"],
       [id |-> "medication",   name |-> "Prescription Medications"] >>

(***************************************************************************)
(* StackBuilder: state                                                     *)
(***************************************************************************)
\* a selection holds at most MaxSel items
MaxSel == 3

\* analyzeStack's null
Null == [kind |-> "null"]

\* the null of currentStackId and expandedConfigId
NullId == "null"

\* a TypeError raised while the analysis is computed
Throw == [kind |-> "throw"]

defaultConfig ==
    [dose |-> "", unit |-> "mg", timing |-> "", withFood |-> "", frequency |-> "", notes |-> ""]

\* allSupplements.find(s => s.id === id): 0 when there is none
FindSupplement(id) ==
    LET hits == {i \in DOMAIN allSupplements : allSupplements[i] = id}
    IN  IF hits = {} THEN 0 ELSE CHOOSE i \in hits : \A j \in hits : i <= j

\* the catalog object a selection entry refers to
Supplement(id) == ItemRecord(id)

\* selectedSupplements.map(s => s.supplement)
SelectedItems(sel) == [i \in DOMAIN sel |-> Supplement(sel[i].supplement)]

\* the ids a click can carry: those of the catalog and one that is not in it
SupplementIds ==
    {allSupplements[i] : i \in DOMAIN allSupplements} \cup {"not-in-catalog"}

(***************************************************************************)
(* Analysis engine                                                         *)
(***************************************************************************)
SYNERGY_DB ==
    <<
       [ids |-> <<"nac", "glycine">>, name |-> "GlyNAC Protocol",
        strength |-> "strong", evidenceLevel |-> "strong"],
       [ids |-> <<"vitamin-d3-k2", "magnesium">>, name |-> "Vitamin D Activation Triad",
        strength |-> "strong", evidenceLevel |-> "strong"],
       [ids |-> <<"magnesium", "taurine", "glycine">>, name |-> "GABAergic Convergence",
        strength |-> "moderate", evidenceLevel |-> "moderate"],
       [ids |-> <<"magnesium", "taurine">>, name |-> "Dual Inhibitory Support",
        strength |-> "moderate", evidenceLevel |-> "moderate"],
       [ids |-> <<"magnesium", "glycine">>, name |-> "Relaxation & Sleep Support",
        strength |-> "moderate", evidenceLevel |-> "moderate"],
       [ids |-> <<"curcumin", "omega-3">>, name |-> "Anti-Inflammatory Convergence",
        strength |-> "strong", evidenceLevel |-> "strong"],
       [ids |-> <<"l-tyrosine", "elvanse">>, name |-> "Dopamine Substrate Replenishment",
        strength |-> "strong", evidenceLevel |-> "moderate"],
       [ids |-> <<"l-tyrosine", "ritalin">>, name |-> "Dopamine Precursor Support",
        strength |-> "moderate", evidenceLevel |-> "moderate"],
       [ids |-> <<"ashwagandha", "magnesium">>, name |-> "HPA Axis Modulation",
        strength |-> "moderate", evidenceLevel |-> "moderate"],
       [ids |-> <<"myo-inositol", "magnesium">>, name |-> "Anxiolytic Synergy",
        strength |-> "moderate", evidenceLevel |-> "moderate"],
       [ids |-> <<"trazodone", "melatonin">>, name |-> "Complementary Sleep Mechanisms",
        strength |-> "strong", evidenceLevel |-> "strong"],
       [ids |-> <<"creatine-monohydrate", "magnesium">>, name |-> "ATP Production Support",
        strength |-> "moderate", evidenceLevel |-> "moderate"],
       [ids |-> <<"creatine-monohydrate", "omega-3">>, name |-> "Neuroprotective Stack",
        strength |-> "moderate", evidenceLevel |-> "emerging"],
       [ids |-> <<"berberine", "gn-digestive-enzymes">>, name |-> "Metabolic Optimization",
        strength |-> "moderate", evidenceLevel |-> "moderate"],
       [ids |-> <<"elvanse", "huperzine-a">>, name |-> "Dual Neurotransmitter Enhancement",
        strength |-> "moderate", evidenceLevel |-> "emerging"],
       [ids |-> <<"coenzyme-q10", "omega-3">>, name |-> "Mitochondrial & Membrane Support",
        strength |-> "moderate", evidenceLevel |-> "moderate"],
       [ids |-> <<"lions-mane", "huperzine-a">>, name |-> "Cholinergic & Neurotrophic Stack",
        strength |-> "moderate", evidenceLevel |-> "emerging"],
       [ids |-> <<"lions-mane", "omega-3">>, name |-> "Brain Structure & Growth",
        strength |-> "moderate", evidenceLevel |-> "emerging"],
       [ids |-> <<"ashwagandha", "l-tyrosine">>, name |-> "Stress-Resilient Performance",
        strength |-> "moderate", evidenceLevel |-> "moderate"],
       [ids |-> <<"nac", "coenzyme-q10">>, name |-> "Antioxidant & Mitochondrial Synergy",
        strength |-> "moderate", evidenceLevel |-> "moderate"],
       [ids |-> <<"creatine-monohydrate", "l-tyrosine">>, name |-> "Cognitive Energy Stack",
        strength |-> "moderate", evidenceLevel |-> "emerging"] >>

\* the name of the selected item with this id, or the id itself
SynergyName(supplements, id) ==
    LET hits == {i \in DOMAIN supplements : supplements[i].id = id}
    IN  IF hits = {} THEN id
        ELSE supplements[CHOOSE i \in hits : \A j \in hits : i <= j].name

\* a slip: matchCount > 0
SynergyFiresOnAny(synergy, ids) ==
    Cardinality({k \in DOMAIN synergy.ids : synergy.ids[k] \in ids}) > 0

\* matchCount === synergy.ids.length
SynergyFires(synergy, ids) ==
    Cardinality({k \in DOMAIN synergy.ids : synergy.ids[k] \in ids}) = Len(synergy.ids)

detectSynergies(supplements) ==
    LET ids == {supplements[i].id : i \in DOMAIN supplements}
        Fires(synergy) == SynergyFires(synergy, ids)
        found == SelectSeq(SYNERGY_DB, Fires)
    IN  [n \in DOMAIN found |->
            [ids |-> found[n].ids,
             name |-> found[n].name,
             strength |-> found[n].strength,
             evidenceLevel |-> found[n].evidenceLevel,
             supplementNames |->
                [k \in DOMAIN found[n].ids |-> SynergyName(supplements, found[n].ids[k])]]]

\* the callback of supplements.find in detectInteractions, for the candidate s:
\* "yes", "no", or "throw" when it reads a property of undefined
MatchResult(supp, interaction, s) ==
    IF s.id = supp.id THEN "no"
    ELSE IF "name" \notin DOMAIN s \/ "substance" \notin DOMAIN interaction THEN "throw"
    ELSE LET substance == toLowerCase(interaction.substance)
             name == toLowerCase(s.name)
         IN  IF includes(name, substance) THEN "yes"
             ELSE IF "aliases" \notin DOMAIN s THEN "throw"
             ELSE IF \E a \in DOMAIN s.aliases : includes(toLowerCase(s.aliases[a]), substance)
                  THEN "yes"
             ELSE IF includes(substance, name) THEN "yes"
             ELSE IF includes(substance, toLowerCase(FirstToken(s.name))) THEN "yes"
             ELSE "no"

\* a slip: only the items after supp are candidates
FindMatchAfter(supp, interaction, supplements) ==
    LET self == CHOOSE i \in DOMAIN supplements : supplements[i].id = supp.id
        hits == {j \in DOMAIN supplements :
                    /\ j > self
                    /\ MatchResult(supp, interaction, supplements[j]) # "no"}
    IN  IF hits = {} THEN 0 ELSE CHOOSE j \in hits : \A k \in hits : j <= k

\* supplements.find(...): the index of the first candidate whose callback does
\* not return false (0 when there is none); the callback is not run further
FindMatch(supp, interaction, supplements) ==
    LET hits == {j \in DOMAIN supplements :
                    MatchResult(supp, interaction, supplements[j]) # "no"}
    IN  IF hits = {} THEN 0 ELSE CHOOSE j \in hits : \A k \in hits : j <= k

\* the declarations in the order the two nested forEach visit them; an item
\* without an interactions list is skipped (if (!supp.interactions) return)
RECURSIVE Declarations(_, _)
Declarations(supplements, i) ==
    IF i > Len(supplements) THEN << >>
    ELSE LET supp == supplements[i]
             own == IF "interactions" \in DOMAIN supp
                    THEN [k \in DOMAIN supp.interactions |->
                            [supp |-> supp, interaction |-> supp.interactions[k]]]
                    ELSE << >>
         IN  own \o Declarations(supplements, i + 1)

\* a property that may be absent reads as undefined
Prop(r, f) == IF f \in DOMAIN r THEN r[f] ELSE "undefined"

\* [supp.id, matchedSupp.id].sort().join(':') + ':' + interaction.substance
InteractionKey(supp, matchedSupp, interaction) ==
    <<{supp.id, matchedSupp.id}, interaction.substance>>

\* the records pushed while the declarations decls[n..] are visited, given the
\* keys seen so far
RECURSIVE Discover(_, _, _, _)
Discover(decls, n, supplements, seen) ==
    IF n > Len(decls) THEN << >>
    ELSE LET supp == decls[n].supp
             interaction == decls[n].interaction
             j == FindMatch(supp, interaction, supplements)
         IN  IF j = 0 THEN Discover(decls, n + 1, supplements, seen)
             ELSE LET matchedSupp == supplements[j]
                      key == InteractionKey(supp, matchedSupp, interaction)
                  IN  IF key \in seen THEN Discover(decls, n + 1, supplements, seen)
                      ELSE << [from |-> supp.name,
                               to |-> matchedSupp.name,
                               substance |-> interaction.substance,
                               effect |-> Prop(interaction, "effect"),
                               severity |-> Prop(interaction, "severity")] >>
                           \o Discover(decls, n + 1, supplements, seen \cup {key})

severityOrder == [severe |-> 0, moderate |-> 1, mild |-> 2]

\* (severityOrder[severity] || 3): an unknown severity, and also the value 0,
\* is falsy and gives 3
SeverityRank(severity) ==
    IF severity \in DOMAIN severityOrder /\ severityOrder[severity] # 0
    THEN severityOrder[severity]
    ELSE 3

\* interactions.sort((a, b) => rank(a) - rank(b)); Array.prototype.sort is stable
SortBySeverity(interactions) ==
    LET Rank0(r) == SeverityRank(r.severity) = 0
        Rank1(r) == SeverityRank(r.severity) = 1
        Rank2(r) == SeverityRank(r.severity) = 2
        Rank3(r) == SeverityRank(r.severity) = 3
    IN  SelectSeq(interactions, Rank0) \o SelectSeq(interactions, Rank1)
            \o SelectSeq(interactions, Rank2) \o SelectSeq(interactions, Rank3)

\* detectInteractions raises a TypeError
detectInteractionsThrows(supplements) ==
    LET decls == Declarations(supplements, 1)
    IN  \E n \in DOMAIN decls :
            LET j == FindMatch(decls[n].supp, decls[n].interaction, supplements)
            IN  /\ j # 0
                /\ MatchResult(decls[n].supp, decls[n].interaction, supplements[j]) = "throw"

detectInteractions(supplements) ==
    SortBySeverity(Discover(Declarations(supplements, 1), 1, supplements, {}))

\* Array.prototype.includes on a list of strings
ListIncludes(list, x) == \E i \in DOMAIN list : list[i] = x

\* the sum of the evidence scores of a list of items
RECURSIVE SumScores(_, _)
SumScores(items, i) ==
    IF i > Len(items) THEN 0
    ELSE calculateScore(items[i].evidence) + SumScores(items, i + 1)

\* supplements.filter(s => s.categories.includes(catId))
Contributing(supplements, catId) ==
    LET InCategory(s) == ListIncludes(s.categories, catId)
    IN  SelectSeq(supplements, InCategory)

\* a slip: Math.round(score), without the cap
CoverageRatingUncapped(n, total) == (132 * n + 2 * total + 33) \div 66

\* a slip: the mean over the contributing items in place of their sum
CoverageRatingMean(n, total) ==
    LET rounded == (132 * n + 2 * total + 33 * n) \div (66 * n)
    IN  IF rounded < 10 THEN rounded ELSE 10

\* Math.min(10, Math.round(score)) for score = sum over the n contributing
\* items of 2 + evidence/33, that is 2n + total/33
CoverageRating(n, total) ==
    LET rounded == (132 * n + 2 * total + 33) \div 66
    IN  IF rounded < 10 THEN rounded ELSE 10

analyzeCategoryCoverageThrows(supplements) ==
    /\ allCategories # << >>
    /\ \/ \E i \in DOMAIN supplements : "categories" \notin DOMAIN supplements[i]
       \/ \E i \in DOMAIN supplements :
            /\ "evidence" \notin DOMAIN supplements[i]
            /\ \E c \in DOMAIN allCategories :
                  ListIncludes(supplements[i].categories, allCategories[c].id)

analyzeCategoryCoverage(supplements) ==
    LET covered == {c \in DOMAIN allCategories :
                        Contributing(supplements, allCategories[c].id) # << >>}
        CatIndex(id) == CHOOSE c \in covered :
                            /\ allCategories[c].id = id
                            /\ \A d \in covered : allCategories[d].id = id => d <= c
        Entry(c) ==
            LET contributing == Contributing(supplements, allCategories[c].id)
            IN  [category |-> allCategories[c],
                 rating |-> CoverageRating(Len(contributing), SumScores(contributing, 1)),
                 maxRating |-> 10,
                 supplements |-> [i \in DOMAIN contributing |-> contributing[i].name],
                 count |-> Len(contributing)]
    IN  [id \in {allCategories[c].id : c \in covered} |-> Entry(CatIndex(id))]

\* a slip: the key is the whole text, lower-cased
DedupKeyWhole(text) == toLowerCase(text)

\* benefit.substring(0, 40).toLowerCase()
DedupKey(text) ==
    toLowerCase(SubSeq(text, 1, IF Len(text) < 40 THEN Len(text) ELSE 40))

\* the (item, text) pairs in the order the two nested forEach visit them
RECURSIVE Texts(_, _, _)
Texts(supplements, field, i) ==
    IF i > Len(supplements) THEN << >>
    ELSE [k \in DOMAIN supplements[i][field] |->
            [source |-> supplements[i].name, text |-> supplements[i][field][k]]]
         \o Texts(supplements, field, i + 1)

\* the entries of the map after the pairs texts[1..n], in key insertion order
RECURSIVE Merge(_, _)
Merge(texts, n) ==
    IF n = 0 THEN << >>
    ELSE LET before == Merge(texts, n - 1)
             key == DedupKey(texts[n].text)
             hits == {e \in DOMAIN before : before[e].key = key}
         IN  IF hits = {}
             THEN Append(before, [key |-> key, text |-> texts[n].text,
                                  sources |-> <<texts[n].source>>])
             ELSE LET e == CHOOSE h \in hits : TRUE
                  IN  IF ListIncludes(before[e].sources, texts[n].source)
                      THEN before
                      ELSE [before EXCEPT ![e].sources = Append(@, texts[n].source)]

\* Object.values(map): the entries without their keys.  The keys are prefixes
\* of sentences, none of them an array index or a property of Object.prototype,
\* so the values come in the order the keys were inserted.
Aggregate(supplements, field) ==
    LET merged == Merge(Texts(supplements, field, 1), Len(Texts(supplements, field, 1)))
    IN  [e \in DOMAIN merged |-> [text |-> merged[e].text, sources |-> merged[e].sources]]

aggregateBenefits(supplements) == Aggregate(supplements, "benefits")

aggregateSideEffects(supplements) == Aggregate(supplements, "sideEffects")

\* supp.benefits.forEach / supp.sideEffects.forEach on undefined
AggregateThrows(supplements, field) ==
    \E i \in DOMAIN supplements : field \notin DOMAIN supplements[i]

RECURSIVE SumCounts(_, _, _)
SumCounts(supplements, field, i) ==
    IF i > Len(supplements) THEN 0
    ELSE OrZero(supplements[i].evidence, field) + SumCounts(supplements, field, i + 1)

\* [...supplements].sort((a, b) => score(b) - score(a)): descending by score,
\* items of equal score in their given order
SortByScore(supplements) ==
    LET score(i) == calculateScore(supplements[i].evidence)
        Before(i, j) == score(i) > score(j) \/ (score(i) = score(j) /\ i < j)
        Place(i) == 1 + Cardinality({j \in DOMAIN supplements : Before(j, i)})
    IN  [p \in DOMAIN supplements |->
            supplements[CHOOSE i \in DOMAIN supplements : Place(i) = p]]

\* a slip: Math.floor(total / n)
FlooredMean(total, n) == total \div n

\* Math.round(total / n) for a non-negative total
RoundedMean(total, n) == (2 * total + n) \div (2 * n)

Named(list) ==
    [i \in DOMAIN list |-> [name |-> list[i].name, assessment |-> assess(list[i].evidence)]]

\* a slip: list.slice(-3), the reverse() left out
LastThree(list) ==
    LET n == Len(list)
        k == IF n < 3 THEN n ELSE 3
    IN  [i \in 1 .. k |-> list[n - k + i]]

\* list.slice(-3).reverse()
LastThreeReversed(list) ==
    LET n == Len(list)
        k == IF n < 3 THEN n ELSE 3
    IN  [i \in 1 .. k |-> list[n + 1 - i]]

aggregateEvidenceThrows(supplements) ==
    \E i \in DOMAIN supplements : "evidence" \notin DOMAIN supplements[i]

aggregateEvidence(supplements) ==
    LET n == Len(supplements)
        totalScore == SumScores(supplements, 1)
        avgScore == IF n > 0 THEN RoundedMean(totalScore, n) ELSE 0
        sorted == SortByScore(supplements)
    IN  [avgScore |-> avgScore,
         tierInfo |-> getTier(avgScore),
         tiers |-> [t \in {"S", "A", "B", "C", "D"} |->
                      Cardinality({i \in DOMAIN supplements :
                                      assess(supplements[i].evidence).tier = t})],
         totals |-> [totalStudies |-> SumCounts(supplements, "totalStudies", 1),
                     totalHuman   |-> SumCounts(supplements, "humanStudies", 1),
                     totalRCTs    |-> SumCounts(supplements, "rcts", 1),
                     totalMeta    |-> SumCounts(supplements, "metaAnalyses", 1),
                     totalSR      |-> SumCounts(supplements, "systematicReviews", 1)],
         strongest |-> Named(SubSeq(sorted, 1, IF n < 3 THEN n ELSE 3)),
         weakest |-> Named(LastThreeReversed(sorted)),
         individualScores |->
            [i \in DOMAIN supplements |->
                [name |-> supplements[i].name, id |-> supplements[i].id,
                 assessment |-> assess(supplements[i].evidence)]]]

\* the names of the items of a list
Names(list) == [i \in DOMAIN list |-> list[i].name]

IsMedication(s) == ListIncludes(s.categories, "medication")

\* a slip: the moderate records pass through as well
IsSevereOrModerate(i) == i.severity \in {"severe", "moderate"}

IsSevere(i) == i.severity = "severe"

IsCholinergic(s) ==
    \/ s.id = "huperzine-a"
    \/ includes(toLowerCase(s.mechanismOfAction), <<"a", "c", "e", "t", "y", "l", "c", "h", "o", "l", "i", "n", "e", "s", "t", "e", "r", "a", "s", "e">>)

\* a slip: trazodone is in the list of stimulants
IsStimulantOrTrazodone(s) == ListIncludes(<<"elvanse", "ritalin", "trazodone">>, s.id)

IsStimulant(s) == ListIncludes(<<"elvanse", "ritalin">>, s.id)

\* a slip: the test for '5-ht' is left out
IsSerotonergicWithout5HT(s) ==
    \/ s.id = "trazodone"
    \/ includes(toLowerCase(s.mechanismOfAction), <<"s", "e", "r", "o", "t", "o", "n", "i", "n">>)

IsSerotonergic(s) ==
    \/ s.id = "trazodone"
    \/ includes(toLowerCase(s.mechanismOfAction), <<"s", "e", "r", "o", "t", "o", "n", "i", "n">>)
    \/ includes(toLowerCase(s.mechanismOfAction), <<"5", "-", "h", "t">>)

generateWarningsThrows(supplements) ==
    \/ \E i \in DOMAIN supplements : "categories" \notin DOMAIN supplements[i]
    \/ detectInteractionsThrows(supplements)
    \* an item passes one of the two id tests at most, so the other filter
    \* reads its mechanismOfAction
    \/ \E i \in DOMAIN supplements : "mechanismOfAction" \notin DOMAIN supplements[i]

generateWarnings(supplements) ==
    LET meds == SelectSeq(supplements, IsMedication)
        severeInteractions == SelectSeq(detectInteractions(supplements), IsSevere)
        cholinergics == SelectSeq(supplements, IsCholinergic)
        stimulants == SelectSeq(supplements, IsStimulant)
        serotonergics == SelectSeq(supplements, IsSerotonergic)
    IN    (IF Len(meds) > 0
           THEN << [severity |-> "severe", rule |-> "prescription", names |-> Names(meds)] >>
           ELSE << >>)
       \o [i \in DOMAIN severeInteractions |->
              [severity |-> "severe", rule |-> "interaction",
               names |-> <<severeInteractions[i].from, severeInteractions[i].to>>,
               effect |-> severeInteractions[i].effect]]
       \o (IF Len(cholinergics) > 1
           THEN << [severity |-> "moderate", rule |-> "cholinergic", names |-> Names(cholinergics)] >>
           ELSE << >>)
       \o (IF Len(stimulants) > 1
           THEN << [severity |-> "severe", rule |-> "stimulant", names |-> Names(stimulants)] >>
           ELSE << >>)
       \o (IF Len(serotonergics) > 2
           THEN << [severity |-> "moderate", rule |-> "serotonergic", names |-> Names(serotonergics)] >>
           ELSE << >>)
       \o (IF Len(supplements) > 10
           THEN << [severity |-> "mild", rule |-> "large-stack", names |-> << >>] >>
           ELSE << >>)

generateDosageSummaryThrows(sel) ==
    \E i \in DOMAIN sel : "dosage" \notin DOMAIN Supplement(sel[i].supplement)

generateDosageSummary(sel) ==
    [i \in DOMAIN sel |->
        LET supp == Supplement(sel[i].supplement)
        IN  [name |-> supp.name, id |-> supp.id,
             standard |-> supp.dosage.standard,
             optimal |-> supp.dosage.optimal,
             timing |-> supp.dosage.timing,
             config |-> sel[i].config]]

\* some part of the analysis raises a TypeError
analyzeStackThrows(sel) ==
    LET supplements == SelectedItems(sel)
    IN  \/ analyzeCategoryCoverageThrows(supplements)
        \/ detectInteractionsThrows(supplements)
        \/ AggregateThrows(supplements, "benefits")
        \/ AggregateThrows(supplements, "sideEffects")
        \/ aggregateEvidenceThrows(supplements)
        \/ generateWarningsThrows(supplements)
        \/ generateDosageSummaryThrows(sel)

\* the object analyzeStack builds (costEstimate is always null)
Report(sel) ==
    LET supplements == SelectedItems(sel)
    IN  [kind |-> "report",
         categoryCoverage |-> analyzeCategoryCoverage(supplements),
         synergies |-> detectSynergies(supplements),
         interactions |-> detectInteractions(supplements),
         benefits |-> aggregateBenefits(supplements),
         sideEffects |-> aggregateSideEffects(supplements),
         evidence |-> aggregateEvidence(supplements),
         warnings |-> generateWarnings(supplements),
         dosageSummary |-> generateDosageSummary(sel)]

\* a slip: the guard for the empty selection is left out
analyzeStackUnguarded(sel) ==
    IF analyzeStackThrows(sel) THEN Throw ELSE Report(sel)

analyzeStack(sel) ==
    IF Len(sel) = 0 THEN Null
    ELSE IF analyzeStackThrows(sel) THEN Throw
    ELSE Report(sel)

(***************************************************************************)
(* StackBuilder: operations.  Every handler ends in renderPage, which      *)
(* recomputes the analysis of the selection it finds.                      *)
(***************************************************************************)
\* a slip: analyzeStack sorts the selection by score, in place
selectedSortedByAnalyze(sel) ==
    LET sorted == SortByScore(SelectedItems(sel))
    IN  [p \in DOMAIN sel |->
            sel[CHOOSE e \in DOMAIN sel : sel[e].supplement = sorted[p].id]]

\* the selection as analyzeStack leaves it: it reads selectedSupplements
\* through map(), which builds a new array, and the two sorts of the analysis
\* are on arrays made there ([...supplements] and interactions)
selectedAfterAnalyze(sel) == sel

\* renderPage, for the selection the handler has made
renderPage(sel) ==
    /\ analysis' = analyzeStack(sel)
    /\ selectedSupplements' = selectedAfterAnalyze(sel)

\* localStorage.getItem returns null: nothing is stored under the key
Absent == [kind |-> "absent"]

\* a stored string that JSON.parse rejects
Corrupt == [kind |-> "corrupt"]

\* JSON.stringify(savedStacks): the text of the list as it is at this moment;
\* ids, names, times and config values are strings and the lists are arrays,
\* so the text gives back the same list when it is parsed
JSONstringify(stacks) == [kind |-> "text", value |-> stacks]

\* loadSavedStacks: data ? JSON.parse(data) : [], and [] when parse throws
loadSavedStacks(data) == IF data.kind = "text" THEN data.value ELSE << >>

\* init: loadData, loadSavedStacks, renderPage
InitStored(supplements, data) ==
    /\ allSupplements = supplements
    /\ allCategories = Categories
    /\ selectedSupplements = << >>
    /\ savedStacks = loadSavedStacks(data)
    /\ localStorage = data
    /\ clock = 1
    /\ sharedConfigs = {}
    /\ currentStackName = ""
    /\ currentStackId = NullId
    /\ expandedConfigId = NullId
    /\ analysis = analyzeStack(<< >>)
    /\ evidence = << >>
    /\ assessment = Idle
    /\ catSupplements = << >>
    /\ sortedByEvidence = Idle

\* init when nothing is stored
InitWith(supplements) == InitStored(supplements, Absent)

\* a slip: no item is taken to be selected
NeverSelected(id) == FALSE

\* selectedSupplements.some(s => s.supplement.id === supplementId)
IsSelected(id) == \E i \in DOMAIN selectedSupplements : selectedSupplements[i].supplement = id

addSupplement(supplementId) ==
    /\ IF IsSelected(supplementId) \/ FindSupplement(supplementId) = 0
       THEN UNCHANGED <<selectedSupplements, expandedConfigId, analysis>>
       ELSE /\ expandedConfigId' = supplementId
            /\ renderPage(Append(selectedSupplements,
                                 [supplement |-> supplementId, config |-> defaultConfig]))
    /\ UNCHANGED <<allSupplements, allCategories, savedStacks, currentStackName,
                   currentStackId, evidence, assessment, catSupplements,
                   sortedByEvidence, localStorage, clock, sharedConfigs>>

removeSupplement(supplementId) ==
    LET Kept(s) == s.supplement # supplementId
    IN  /\ renderPage(SelectSeq(selectedSupplements, Kept))
        /\ sharedConfigs' = {p \in sharedConfigs : p[2] # supplementId}
        /\ UNCHANGED <<allSupplements, allCategories, savedStacks, currentStackName,
                       currentStackId, expandedConfigId, evidence, assessment,
                       catSupplements, sortedByEvidence, localStorage, clock>>

clearAll ==
    /\ currentStackId' = NullId
    /\ currentStackName' = ""
    /\ expandedConfigId' = NullId
    /\ renderPage(<< >>)
    /\ sharedConfigs' = {}
    /\ UNCHANGED <<allSupplements, allCategories, savedStacks, evidence, assessment,
                   catSupplements, sortedByEvidence, localStorage, clock>>

\* the button of a stack card opens the config panel of its item, or closes
\* it when it is the open one, and the page is rendered again
toggleConfigPanel(supplementId) ==
    /\ expandedConfigId' = IF expandedConfigId = supplementId THEN NullId ELSE supplementId
    /\ renderPage(selectedSupplements)
    /\ UNCHANGED <<allSupplements, allCategories, savedStacks, currentStackName,
                   currentStackId, evidence, assessment, catSupplements,
                   sortedByEvidence, localStorage, clock, sharedConfigs>>

(***************************************************************************)
(* StackBuilder: saved stacks.  A saved stack is a record {id, name,       *)
(* supplementIds, supplementConfigs, createdAt, updatedAt}; the times are  *)
(* kept as the clock readings that toISOString writes out.  A stack that   *)
(* the earlier builder stored has no supplementConfigs.                    *)
(***************************************************************************)
\* `custom-${Date.now()}`
CustomId(now) == "custom-" \o ToString(now)

\* stacks.findIndex(s => s.id === stackId), and the stack find returns:
\* the first position with this id, 0 when there is none
findIndex(stacks, stackId) ==
    LET hits == {k \in DOMAIN stacks : stacks[k].id = stackId}
    IN  IF hits = {} THEN 0 ELSE CHOOSE k \in hits : \A j \in hits : k <= j

\* a slip: the list is not written to storage
saveSavedStacksSkipped(stacks) == localStorage

\* saveSavedStacks: what localStorage holds after setItem
saveSavedStacks(stacks) == JSONstringify(stacks)

\* selectedSupplements.reduce((acc, s) => { acc[s.supplement.id] = s.config }):
\* the config of each selected id, of its last entry
ConfigsOf(sel) ==
    [id \in {sel[i].supplement : i \in DOMAIN sel} |->
        sel[CHOOSE i \in DOMAIN sel :
                /\ sel[i].supplement = id
                /\ \A j \in DOMAIN sel : sel[j].supplement = id => j <= i].config]

\* a slip: the stack is never found, so that every save appends
ExistingIndexNone(id) == 0

\* savedStacks.findIndex(s => s.id === stack.id)
ExistingIndex(id) == findIndex(savedStacks, id)

saveCurrentStack(name) ==
    IF name = "" \/ Len(selectedSupplements) = 0
    THEN UNCHANGED vars
    ELSE LET id == IF currentStackId # NullId THEN currentStackId ELSE CustomId(clock)
             existingIndex == ExistingIndex(id)
             stack == [id |-> id,
                       name |-> name,
                       supplementIds |-> [i \in DOMAIN selectedSupplements |->
                                            selectedSupplements[i].supplement],
                       supplementConfigs |-> ConfigsOf(selectedSupplements),
                       createdAt |-> IF existingIndex > 0
                                     THEN savedStacks[existingIndex].createdAt
                                     ELSE clock,
                       updatedAt |-> clock]
             stacks == IF existingIndex > 0
                       THEN [savedStacks EXCEPT ![existingIndex] = stack]
                       ELSE Append(savedStacks, stack)
         IN  /\ savedStacks' = stacks
             /\ currentStackId' = id
             /\ currentStackName' = name
             /\ localStorage' = saveSavedStacks(stacks)
             /\ sharedConfigs' = {p \in sharedConfigs : p[1] # id}
                                    \cup {<<id, stack.supplementIds[i]>> :
                                            i \in DOMAIN stack.supplementIds}
             /\ renderPage(selectedSupplements)
             /\ clock' = clock + 1
             /\ UNCHANGED <<allSupplements, allCategories, expandedConfigId, evidence,
                            assessment, catSupplements, sortedByEvidence>>

\* a slip: the ids that resolve, last first
LoadedIdsReversed(stack) ==
    LET Resolves(id) == FindSupplement(id) # 0
        ids == SelectSeq(stack.supplementIds, Resolves)
    IN  [i \in DOMAIN ids |-> ids[Len(ids) + 1 - i]]

\* the ids of a saved stack that allSupplements.find resolves, in saved order
LoadedIds(stack) ==
    LET Resolves(id) == FindSupplement(id) # 0
    IN  SelectSeq(stack.supplementIds, Resolves)

\* { ...defaultConfig(), ...config } for the config the stack holds for the
\* id, or for defaultConfig() when it holds none
LoadedConfig(stack, id) ==
    IF "supplementConfigs" \in DOMAIN stack /\ id \in DOMAIN stack.supplementConfigs
    THEN LET config == stack.supplementConfigs[id]
         IN  [f \in DOMAIN defaultConfig \cup DOMAIN config |->
                IF f \in DOMAIN config THEN config[f] ELSE defaultConfig[f]]
    ELSE defaultConfig

loadStack(stackId) ==
    LET k == findIndex(savedStacks, stackId)
    IN  IF k = 0
        THEN UNCHANGED vars
        ELSE LET stack == savedStacks[k]
                 ids == LoadedIds(stack)
             IN  /\ currentStackId' = stack.id
                 /\ currentStackName' = stack.name
                 /\ expandedConfigId' = NullId
                 /\ sharedConfigs' = {}
                 /\ renderPage([i \in DOMAIN ids |->
                                  [supplement |-> ids[i],
                                   config |-> LoadedConfig(stack, ids[i])]])
                 /\ UNCHANGED <<allSupplements, allCategories, savedStacks, evidence,
                                assessment, catSupplements, sortedByEvidence,
                                localStorage, clock>>

\* a slip: the current stack is never recognised
IsCurrentNever(stackId) == FALSE

\* currentStackId === stackId
IsCurrent(stackId) == currentStackId = stackId

deleteStack(stackId) ==
    LET Kept(s) == s.id # stackId
        stacks == SelectSeq(savedStacks, Kept)
    IN  /\ savedStacks' = stacks
        /\ currentStackId' = IF IsCurrent(stackId) THEN NullId ELSE currentStackId
        /\ currentStackName' = IF IsCurrent(stackId) THEN "" ELSE currentStackName
        /\ localStorage' = saveSavedStacks(stacks)
        /\ sharedConfigs' = IF IsCurrent(stackId) THEN {}
                            ELSE {p \in sharedConfigs : p[1] # stackId}
        /\ renderPage(IF IsCurrent(stackId) THEN << >> ELSE selectedSupplements)
        /\ UNCHANGED <<allSupplements, allCategories, expandedConfigId, evidence,
                       assessment, catSupplements, sortedByEvidence, clock>>

\* entry.config[field] = value, on the object that a saved stack may hold as
\* well; the page is not rendered again and nothing is written to storage
updateConfig(supplementId, field, value) ==
    LET hits == {i \in DOMAIN selectedSupplements :
                    selectedSupplements[i].supplement = supplementId}
    IN  IF hits = {}
        THEN UNCHANGED vars
        ELSE LET i == CHOOSE h \in hits : \A j \in hits : h <= j
             IN  /\ selectedSupplements' =
                        [selectedSupplements EXCEPT ![i].config[field] = value]
                 /\ savedStacks' =
                        [k \in DOMAIN savedStacks |->
                            IF <<savedStacks[k].id, supplementId>> \in sharedConfigs
                            THEN [savedStacks[k] EXCEPT
                                    !.supplementConfigs[supplementId][field] = value]
                            ELSE savedStacks[k]]
                 /\ UNCHANGED <<allSupplements, allCategories, currentStackName,
                                currentStackId, expandedConfigId, analysis, evidence,
                                assessment, catSupplements, sortedByEvidence,
                                localStorage, clock, sharedConfigs>>

Init == InitWith(Catalog)

Next ==
    \/ \E id \in SupplementIds :
            Len(selectedSupplements) < MaxSel /\ addSupplement(id)
    \/ \E id \in SupplementIds : removeSupplement(id)
    \/ clearAll

Spec == Init /\ [][Next]_vars

\* the builder with the config panel buttons of the stack cards, over the
\* catalog for the interaction matcher
InitInteractions == InitWith(InteractionCatalog)

NextPanel ==
    \/ \E id \in SupplementIds :
            Len(selectedSupplements) < MaxSel /\ addSupplement(id)
    \/ \E id \in SupplementIds : removeSupplement(id)
    \/ clearAll
    \/ \E i \in DOMAIN selectedSupplements :
            toggleConfigPanel(selectedSupplements[i].supplement)

SpecInteractions == InitInteractions /\ [][NextPanel]_vars

\* the builder over the catalog of eleven items, which are added in the
\* order of the catalog, items left out at will, up to all of them
InitLarge == InitWith(LargeCatalog)

InCatalogOrder(id) ==
    \A i \in DOMAIN selectedSupplements :
        FindSupplement(selectedSupplements[i].supplement) < FindSupplement(id)

NextLarge ==
    \/ \E id \in SupplementIds : InCatalogOrder(id) /\ addSupplement(id)
    \/ clearAll

SpecLarge == InitLarge /\ [][NextLarge]_vars

\* the builder with its saved stacks, over a catalog of two items.  Storage
\* holds nothing, or a text that does not parse, or a stack that the earlier
\* builder stored at time 0 when the catalog still had coenzyme-q10.
\* A stack is saved at the times 1 .. MaxClock; the prompt for the name stands
\* between two saves, so the clock has moved on at the next one.
MaxClock == 1

StackCatalog == <<"nac", "glycine">>

OldStack ==
    [id |-> CustomId(0),
     name |-> "Old",
     supplementIds |-> <<"glycine", "coenzyme-q10", "nac">>,
     createdAt |-> 0,
     updatedAt |-> 0]

StoredTexts == {Absent, Corrupt, JSONstringify(<<OldStack>>)}

StackNames == {"", "A"}

\* the ids of the stacks there may be
StackIds == {CustomId(t) : t \in 0 .. MaxClock}

\* the dose field of one item is edited; the other configs stay as they are
EditedIds == {"nac"}

DoseValues == {"500"}

InitStacks == \E data \in StoredTexts : InitStored(StackCatalog, data)

NextStacks ==
    \/ \E id \in SupplementIds :
            Len(selectedSupplements) < MaxSel /\ addSupplement(id)
    \/ \E id \in SupplementIds : removeSupplement(id)
    \/ clearAll
    \/ \E name \in StackNames : clock <= MaxClock /\ saveCurrentStack(name)
    \/ \E stackId \in StackIds : loadStack(stackId)
    \/ \E stackId \in StackIds : deleteStack(stackId)
    \/ \E id \in EditedIds, value \in DoseValues : updateConfig(id, "dose", value)

SpecStacks == InitStacks /\ [][NextStacks]_vars

\* the same builder over a catalog with items that lack part of the schema
InitMalformed == InitWith(MalformedCatalog)

SpecMalformed == InitMalformed /\ [][Next]_vars

(***************************************************************************)
(* The scoring engine on its own: every counts record over Counts, with    *)
(* any subset of the five fields absent, is assessed.                      *)
(***************************************************************************)
\* totalStudies carries no weight; two values and its absence are drawn
TotalStudiesValues == {0, 500}

EvidenceRecords ==
    UNION {{ev \in [present -> Counts \cup TotalStudiesValues] :
                /\ \A f \in present \cap ScoredFields : ev[f] \in Counts
                /\ "totalStudies" \in present => ev.totalStudies \in TotalStudiesValues}
           : present \in SUBSET CountFields}

InitScore ==
    /\ allSupplements = Catalog
    /\ allCategories = Categories
    /\ selectedSupplements = << >>
    /\ savedStacks = << >>
    /\ currentStackName = ""
    /\ currentStackId = NullId
    /\ expandedConfigId = NullId
    /\ analysis = Null
    /\ evidence \in EvidenceRecords
    /\ assessment = Idle
    /\ catSupplements = << >>
    /\ sortedByEvidence = Idle
    /\ localStorage = Absent
    /\ clock = 1
    /\ sharedConfigs = {}

Assess ==
    /\ assessment = Idle
    /\ assessment' = assess(evidence)
    /\ UNCHANGED <<allSupplements, allCategories, selectedSupplements, savedStacks,
                   currentStackName, currentStackId, expandedConfigId, analysis,
                   evidence, catSupplements, sortedByEvidence, localStorage, clock,
                   sharedConfigs>>

NextScore == Assess

SpecScore == InitScore /\ [][NextScore]_vars

(***************************************************************************)
(* sortByEvidence on its own: every array of at most MaxSortLen items of   *)
(* SortPool, repeated items included, is sorted once.  nac and taurine     *)
(* have different counts and the same score.                               *)
(***************************************************************************)
MaxSortLen == 3

SortPool == {"ritalin", "nac", "taurine", "glycine"}

SortInputs == UNION {[1 .. n -> SortPool] : n \in 0 .. MaxSortLen}

\* the item objects of an array of ids, and back
Items(ids) == [i \in DOMAIN ids |-> ItemRecord(ids[i])]

Ids(items) == [i \in DOMAIN items |-> items[i].id]

\* a slip: supplements.sort(...), without the copy
sortByEvidenceInPlace(supplements) ==
    [supplements |-> SortByScore(supplements), returned |-> SortByScore(supplements)]

\* [...supplements].sort((a, b) => score(b) - score(a)): sort reorders the
\* copy and returns it; supplements, the argument, is as it was
sortByEvidence(supplements) ==
    [supplements |-> supplements, returned |-> SortByScore(supplements)]

InitSort ==
    /\ allSupplements = Catalog
    /\ allCategories = Categories
    /\ selectedSupplements = << >>
    /\ savedStacks = << >>
    /\ currentStackName = ""
    /\ currentStackId = NullId
    /\ expandedConfigId = NullId
    /\ analysis = Null
    /\ evidence = << >>
    /\ assessment = Idle
    /\ catSupplements \in SortInputs
    /\ sortedByEvidence = Idle
    /\ localStorage = Absent
    /\ clock = 1
    /\ sharedConfigs = {}

SortByEvidence ==
    /\ sortedByEvidence = Idle
    /\ LET call == sortByEvidence(Items(catSupplements))
       IN  /\ catSupplements' = Ids(call.supplements)
           /\ sortedByEvidence' = [kind |-> "sorted", items |-> Ids(call.returned)]
    /\ UNCHANGED <<allSupplements, allCategories, selectedSupplements, savedStacks,
                   currentStackName, currentStackId, expandedConfigId, analysis,
                   evidence, assessment, localStorage, clock, sharedConfigs>>

NextSort == SortByEvidence

SpecSort == InitSort /\ [][NextSort]_vars

(***************************************************************************)
(* Claims about the scoring engine (checked under SpecScore)               *)
(***************************************************************************)
Assessed == assessment.kind = "assessment"

\* the count the specification gives a field: its value, 0 when it is absent
CountOf(ev, f) == IF f \in DOMAIN ev THEN ev[f] ELSE 0

\* the raw weighted value of the counts, in fifths, written out from the counts
Raw5Of(ev) ==
      50 * CountOf(ev, "metaAnalyses") + 30 * CountOf(ev, "systematicReviews")
    + 10 * CountOf(ev, "rcts") + CountOf(ev, "humanStudies")

\* the record with field f set to v
WithCount(ev, f, v) ==
    [g \in DOMAIN ev \cup {f} |-> IF g = f THEN v ELSE ev[g]]

\* the record with every absent field set to 0
ZeroFilled(ev) == [f \in CountFields |-> CountOf(ev, f)]

\* C1 as stated: calculateScore returns an integer s with 0 <= s < 100 and
\* never 100.  Refuted by 106 meta-analyses (raw 1060, score 100).
C1_ScoreBelow100 ==
    Assessed => assessment.score \in 0 .. 99

\* C1 amended: calculateScore returns an integer s with 0 <= s <= 100, and
\* s = 100 exactly when the raw weighted value is at least 1059.8.
C1_ScoreWithin100 ==
    Assessed =>
        /\ assessment.score \in 0 .. 100
        /\ assessment.score = 100 <=> Raw5Of(evidence) >= 5299

C1_Witness ==
    /\ Assessed
    /\ assessment.score = 100

\* C7: calculateScore is monotonically non-decreasing in each count: raising
\* one field of the counts and leaving the others never lowers the score.
C7_Monotone ==
    Assessed =>
        \A f \in CountFields : \A v \in Counts :
            v > CountOf(evidence, f) =>
                calculateScore(WithCount(evidence, f, v)) >= assessment.score

C7_Witness ==
    /\ Assessed
    /\ assessment.score > 0
    /\ \E f \in ScoredFields : \E v \in Counts :
          /\ v > CountOf(evidence, f)
          /\ calculateScore(WithCount(evidence, f, v)) > assessment.score

\* C8: getTier maps a score to exactly one tier by the fixed thresholds:
\* S from 90, A 70..89, B 50..69, C 30..49, D 0..29, for every score that
\* calculateScore returns.
C8_TierThresholds ==
    Assessed =>
        LET s == assessment.score
            t == assessment.tier
        IN  /\ t \in {"S", "A", "B", "C", "D"}
            /\ t = "S" <=> s >= 90
            /\ t = "A" <=> (70 <= s /\ s <= 89)
            /\ t = "B" <=> (50 <= s /\ s <= 69)
            /\ t = "C" <=> (30 <= s /\ s <= 49)
            /\ t = "D" <=> (0 <= s /\ s <= 29)

C8_Witness ==
    /\ Assessed
    /\ assessment.score = 90
    /\ assessment.tier = "S"

\* C9: counts {5 meta-analyses, 10 systematic reviews, 50 RCTs, 200 human
\* studies} have raw value 250, score 71 and tier A; all-zero counts have raw
\* value 0, score 0 and tier D.
IsExample(ev) ==
    /\ CountOf(ev, "metaAnalyses") = 5
    /\ CountOf(ev, "systematicReviews") = 10
    /\ CountOf(ev, "rcts") = 50
    /\ CountOf(ev, "humanStudies") = 200

IsAllZero(ev) == \A f \in CountFields : f \in DOMAIN ev /\ ev[f] = 0

C10_AbsentIsZero ==
    assessment # Idle =>
        /\ Assessed
        /\ rawScore(evidence) = Raw5Of(ZeroFilled(evidence))
        /\ assessment.score = ScoreOfRaw(Raw5Of(ZeroFilled(evidence)))
        /\ assessment = assess(ZeroFilled(evidence))
        /\ \A f \in CountFields \ DOMAIN evidence : assessment.breakdown[f] = 0

C10_Witness ==
    /\ Assessed
    /\ DOMAIN evidence = {"rcts", "totalStudies"}
    /\ evidence.rcts = 50
    /\ assessment.score > 0

(***************************************************************************)
(* Claims about sortByEvidence (checked under SpecSort)                    *)
(***************************************************************************)
Sorted == sortedByEvidence.kind = "sorted"

\* the score of the item with this id
ScoreOfId(id) == calculateScore(ItemRecord(id).evidence)

\* how often x occurs in the sequence
Occurrences(seq, x) == Cardinality({i \in DOMAIN seq : seq[i] = x})

\* C11: sortByEvidence returns a permutation of its input in descending
\* order of calculateScore, items of equal score in their input order; the
\* input array is left as it was; and sorting the result again returns it
\* unchanged.
C11_StableSort ==
    /\ [](Sorted =>
            LET out == sortedByEvidence.items
            IN  /\ Len(out) = Len(catSupplements)
                /\ \A id \in SortPool :
                      Occurrences(out, id) = Occurrences(catSupplements, id)
                /\ \A p, q \in DOMAIN out :
                      p < q => ScoreOfId(out[p]) >= ScoreOfId(out[q])
                /\ \A id \in SortPool :
                      LET Tied(x) == ScoreOfId(x) = ScoreOfId(id)
                      IN  SelectSeq(out, Tied) = SelectSeq(catSupplements, Tied)
                /\ Ids(sortByEvidence(Items(out)).returned) = out)
    /\ [][catSupplements' = catSupplements]_vars

C11_Witness ==
    /\ Sorted
    /\ catSupplements = <<"taurine", "glycine", "ritalin", "nac">>
          \/ catSupplements = <<"taurine", "ritalin", "nac">>
    /\ sortedByEvidence.items # catSupplements
    /\ ScoreOfId("nac") = ScoreOfId("taurine")

(***************************************************************************)
(* Claims about the analysis (checked under Spec and SpecMalformed)        *)
(***************************************************************************)
IsReport == analysis.kind = "report"

SelectedIds == [i \in DOMAIN selectedSupplements |-> selectedSupplements[i].supplement]

SelectedIdSet == {selectedSupplements[i].supplement : i \in DOMAIN selectedSupplements}

\* the interaction records in discovery order, before they are sorted
Discovered ==
    Discover(Declarations(SelectedItems(selectedSupplements), 1), 1,
             SelectedItems(selectedSupplements), {})

\* the priority the claim gives a severity: severe, then moderate, then mild
StatedPriority(severity) ==
    IF severity = "severe" THEN 0 ELSE IF severity = "moderate" THEN 1 ELSE 2

\* C2: the interactions list has every severe record before every moderate
\* one and every moderate record before every mild one, and records of equal
\* severity are in discovery order.
C2_SevereFirst ==
    IsReport =>
        LET recs == analysis.interactions
        IN  /\ \A i, j \in DOMAIN recs :
                  i < j => StatedPriority(recs[i].severity) <= StatedPriority(recs[j].severity)
            /\ \A severity \in {"severe", "moderate", "mild"} :
                  LET Same(r) == r.severity = severity
                  IN  SelectSeq(recs, Same) = SelectSeq(Discovered, Same)

\* C3: a rule of SYNERGY_DB is in the synergies of the report exactly when
\* each of its ids is selected, the fired rules are in declaration order, and
\* {nac, glycine} gives the GlyNAC Protocol alone while {nac} and {glycine}
\* give no synergy.
C3_SynergiesExact ==
    IsReport =>
        LET found == analysis.synergies
            fired == {n \in DOMAIN SYNERGY_DB :
                        \A k \in DOMAIN SYNERGY_DB[n].ids :
                            SYNERGY_DB[n].ids[k] \in SelectedIdSet}
            RuleOf(p) == CHOOSE n \in DOMAIN SYNERGY_DB :
                            /\ SYNERGY_DB[n].ids = found[p].ids
                            /\ SYNERGY_DB[n].name = found[p].name
        IN  /\ Len(found) = Cardinality(fired)
            /\ \A p \in DOMAIN found : RuleOf(p) \in fired
            /\ \A p, q \in DOMAIN found : p < q => RuleOf(p) < RuleOf(q)
            /\ SelectedIdSet = {"nac", "glycine"} =>
                  /\ Len(found) = 1
                  /\ found[1].name = "GlyNAC Protocol"
            /\ SelectedIdSet \in {{"nac"}, {"glycine"}} => found = << >>

C3_Witness ==
    /\ IsReport
    /\ SelectedIds = <<"glycine", "nac">>
    /\ Len(analysis.synergies) = 1
    /\ analysis.synergies[1].name = "GlyNAC Protocol"

\* some declaration of item a resolves to item b
Declares(a, b) ==
    /\ "interactions" \in DOMAIN a
    /\ \E k \in DOMAIN a.interactions : MatchResult(a, a.interactions[k], b) = "yes"

\* the selected item x matches no declaration of another selected item and
\* declares no interaction that matches one
Unrelated(x) ==
    \A y \in SelectedIdSet \ {x} :
        /\ ~Declares(ItemRecord(y), ItemRecord(x))
        /\ ~Declares(ItemRecord(x), ItemRecord(y))

\* C4: with elvanse (which declares Trazodone, moderate) and trazodone
\* selected, alone or with further items that match no declaration and
\* declare no matching interaction, in any order, the interactions are the one
\* record from elvanse to trazodone with severity moderate.
C4_OneRecord ==
    (/\ IsReport
     /\ {"elvanse", "trazodone"} \subseteq SelectedIdSet
     /\ \A x \in SelectedIdSet \ {"elvanse", "trazodone"} : Unrelated(x))
    => analysis.interactions =
          << [from |-> Elvanse.name, to |-> Trazodone.name,
              substance |-> Elvanse.interactions[1].substance,
              effect |-> Elvanse.interactions[1].effect,
              severity |-> "moderate"] >>

C4_Witness ==
    /\ IsReport
    /\ SelectedIds = <<"trazodone", "nac", "elvanse">>
    /\ Unrelated("nac")
    /\ Len(analysis.interactions) = 1

\* a report whose fields are all empty
EmptyReport(r) ==
    /\ r.kind = "report"
    /\ DOMAIN r.categoryCoverage = {}
    /\ r.synergies = << >>
    /\ r.interactions = << >>
    /\ r.benefits = << >>
    /\ r.sideEffects = << >>
    /\ r.evidence = Null
    /\ r.warnings = << >>
    /\ r.dosageSummary = << >>

\* C5: whenever the selection is empty, at the start and after any additions,
\* removals and clearAll, the analysis shown is a defined empty result (null
\* or a report with empty fields) and no exception was raised.
C5_EmptySelection ==
    selectedSupplements = << >> =>
        /\ analysis # Throw
        /\ analysis = Null \/ EmptyReport(analysis)

C5_Witness ==
    /\ selectedSupplements = << >>
    /\ expandedConfigId # NullId
    /\ analysis = Null

\* the positions (item, string) of the strings of a field over the selection,
\* in the order the selection and the items list them
FieldStrings(field) ==
    UNION {{<<i, k>> : k \in 1 .. Len(ItemRecord(selectedSupplements[i].supplement)[field])}
           : i \in DOMAIN selectedSupplements}

Earlier(c, d) == c[1] < d[1] \/ (c[1] = d[1] /\ c[2] < d[2])

StringAt(field, c) == ItemRecord(selectedSupplements[c[1]].supplement)[field][c[2]]

\* the first 40 characters of a string, lower-cased
Prefix40(text) ==
    [n \in 1 .. (IF Len(text) < 40 THEN Len(text) ELSE 40) |->
        IF text[n] \in DOMAIN LowerOf THEN LowerOf[text[n]] ELSE text[n]]

\* the elements of a finite set of numbers in ascending order
RECURSIVE Ascending(_)
Ascending(set) ==
    IF set = {} THEN << >>
    ELSE LET least == CHOOSE x \in set : \A y \in set : x <= y
         IN  <<least>> \o Ascending(set \ {least})

\* the aggregated list of a field is as C12 states
MergedByPrefix(field, entries) ==
    LET all == FieldStrings(field)
        Same(c, d) == Prefix40(StringAt(field, c)) = Prefix40(StringAt(field, d))
        firsts == {c \in all : ~ \E d \in all : Earlier(d, c) /\ Same(d, c)}
        Position(c) == 1 + Cardinality({d \in firsts : Earlier(d, c)})
        contributors(c) == Ascending({d[1] : d \in {d \in all : Same(d, c)}})
    IN  /\ Len(entries) = Cardinality(firsts)
        /\ \A c \in firsts :
              /\ entries[Position(c)].text = StringAt(field, c)
              /\ entries[Position(c)].sources =
                    [n \in DOMAIN contributors(c) |->
                        ItemRecord(selectedSupplements[contributors(c)[n]].supplement).name]

TableIds == {allCategories[c].id : c \in DOMAIN allCategories}

\* the positions in the selection of the items that list the category
Listing(catId) ==
    {i \in DOMAIN selectedSupplements :
        \E k \in DOMAIN ItemRecord(selectedSupplements[i].supplement).categories :
            ItemRecord(selectedSupplements[i].supplement).categories[k] = catId}

\* the sum of the scores of the items at a set of positions of the selection
RECURSIVE ScoreSum(_)
ScoreSum(positions) ==
    IF positions = {} THEN 0
    ELSE LET i == CHOOSE j \in positions : TRUE
         IN  ScoreOfId(selectedSupplements[i].supplement) + ScoreSum(positions \ {i})

\* min(10, round(sum over the listing items of (2 + score/33))): the sum is
\* (66n + total)/33, and r is its rounding when 66r - 33 <= 2(66n + total) < 66r + 33
StatedRating(catId) ==
    LET twice == 2 * (66 * Cardinality(Listing(catId)) + ScoreSum(Listing(catId)))
        rounded == CHOOSE r \in 0 .. (twice \div 66 + 1) :
                        66 * r - 33 <= twice /\ twice < 66 * r + 33
    IN  IF rounded < 10 THEN rounded ELSE 10

\* C13: the category coverage has an entry for a category of the table
\* exactly when a selected item lists it; the entry's rating is
\* min(10, round(sum of 2 + score/33 over the contributing items)), never above
\* 10, its maxRating is 10 and its count the number of contributing items; a
\* category id that is not in the table has no entry.
C13_Coverage ==
    IsReport =>
        LET coverage == analysis.categoryCoverage
        IN  /\ DOMAIN coverage = {id \in TableIds : Listing(id) # {}}
            /\ \A id \in DOMAIN coverage :
                  /\ coverage[id].rating = StatedRating(id)
                  /\ coverage[id].rating <= 10
                  /\ coverage[id].maxRating = 10
                  /\ coverage[id].count = Cardinality(Listing(id))
                  /\ coverage[id].category.id = id
            /\ \A i \in DOMAIN selectedSupplements :
                  LET categories == ItemRecord(selectedSupplements[i].supplement).categories
                  IN  \A k \in DOMAIN categories :
                          categories[k] \notin TableIds => categories[k] \notin DOMAIN coverage

C13_Witness ==
    /\ IsReport
    /\ SelectedIdSet = {"elvanse", "ritalin", "trazodone"}
    /\ analysis.categoryCoverage["medication"].rating = 10
    /\ analysis.categoryCoverage["medication"].count = 3
    /\ analysis.categoryCoverage["cognitive"].rating = 9

C13_WitnessUnknownCategory ==
    /\ IsReport
    /\ SelectedIds = <<"nac">>
    /\ DOMAIN analysis.categoryCoverage = {"longevity"}

\* the warnings of the report that a rule gave
WarningsOf(rule) ==
    LET ByRule(w) == w.rule = rule
    IN  SelectSeq(analysis.warnings, ByRule)

\* C14: the warnings have one multi-stimulant warning, of severity severe,
\* when two or more selected items have an id of the stimulant list (elvanse,
\* ritalin), and none when at most one has.
C14_MultiStimulant ==
    IsReport =>
        LET stimulants == SelectedIdSet \cap {"elvanse", "ritalin"}
            given == WarningsOf("stimulant")
        IN  /\ Cardinality(stimulants) >= 2 =>
                  /\ Len(given) = 1
                  /\ given[1].severity = "severe"
            /\ Cardinality(stimulants) <= 1 => given = << >>

C14_Witness ==
    /\ IsReport
    /\ SelectedIds = <<"ritalin", "trazodone", "elvanse">>
    /\ Len(WarningsOf("stimulant")) = 1
    /\ WarningsOf("stimulant")[1].names = <<Ritalin.name, Elvanse.name>>

\* a step that only opens or closes a config panel: the handler changes
\* expandedConfigId and renders, so the analysis is computed once more for the
\* selection that is there
RendersAgain ==
    /\ selectedSupplements # << >>
    /\ Len(selectedSupplements') = Len(selectedSupplements)
    /\ expandedConfigId' # expandedConfigId

SelectedItem(i) == ItemRecord(selectedSupplements[i].supplement)

\* the declarations of an item that have a substance, and it is not empty
NamedDeclarations(a) ==
    IF "interactions" \notin DOMAIN a THEN {}
    ELSE {d \in {a.interactions[k] : k \in DOMAIN a.interactions} :
            "substance" \in DOMAIN d /\ d.substance # << >>}

\* the declarations of an item whose substance is empty or absent
BlankDeclarations(a) ==
    IF "interactions" \notin DOMAIN a THEN {}
    ELSE {a.interactions[k] : k \in DOMAIN a.interactions} \ NamedDeclarations(a)

\* the substance matches item b as the matcher is described: b's name
\* contains it, or an alias of b does, or it contains b's name or the first
\* word of b's name, all without regard to case
StatedMatch(substance, b) ==
    LET sub == toLowerCase(substance)
    IN  \/ includes(toLowerCase(b.name), sub)
        \/ \E k \in DOMAIN b.aliases : includes(toLowerCase(b.aliases[k]), sub)
        \/ includes(sub, toLowerCase(b.name))
        \/ includes(sub, toLowerCase(FirstToken(b.name)))

\* the records of the report between the items a and b, in either direction
RecordsBetween(a, b) ==
    {n \in DOMAIN analysis.interactions :
        {analysis.interactions[n].from, analysis.interactions[n].to} = {a.name, b.name}}

\* C16: for every selected item A, every declaration d of A and every other
\* selected item B that d's substance matches, the interactions have a record
\* from A to B with d's substance, effect and severity, or an earlier record
\* with the same key (the pair {A, B} and the substance); so a declaration
\* that matches two selected items has a record for each; and no record goes
\* from an item to itself.
C16_EveryMatch ==
    IsReport =>
        /\ \A i, j \in DOMAIN selectedSupplements :
              i # j =>
                \A d \in NamedDeclarations(SelectedItem(i)) :
                    StatedMatch(d.substance, SelectedItem(j)) =>
                        \/ \E n \in DOMAIN analysis.interactions :
                              analysis.interactions[n] =
                                [from |-> SelectedItem(i).name, to |-> SelectedItem(j).name,
                                 substance |-> d.substance, effect |-> d.effect,
                                 severity |-> d.severity]
                        \/ \E n \in RecordsBetween(SelectedItem(i), SelectedItem(j)) :
                              analysis.interactions[n].substance = d.substance
        /\ \A n \in DOMAIN analysis.interactions :
              analysis.interactions[n].from # analysis.interactions[n].to

\* some declaration of the item at position i resolves to the item at j
ResolvesTo(i, j) ==
    \E d \in NamedDeclarations(SelectedItem(i)) :
        FindMatch(SelectedItem(i), d, SelectedItems(selectedSupplements)) = j

\* C17: when selected item A declares an interaction that resolves to B and
\* B one that resolves to A, the interactions have exactly one record for the
\* pair {A, B}, the first one discovered.
C17_ReciprocalCollapsed ==
    IsReport =>
        \A i, j \in DOMAIN selectedSupplements :
            (i < j /\ ResolvesTo(i, j) /\ ResolvesTo(j, i)) =>
                LET Between(r) == {r.from, r.to} = {SelectedItem(i).name, SelectedItem(j).name}
                IN  /\ Cardinality(RecordsBetween(SelectedItem(i), SelectedItem(j))) = 1
                    /\ SelectSeq(analysis.interactions, Between)
                          = <<SelectSeq(Discovered, Between)[1]>>

\* C18: a declaration whose substance is the empty string or absent raises
\* no error and gives no interaction record, whatever else is selected.
C18_BlankSubstanceIsNoOp ==
    \A i \in DOMAIN selectedSupplements :
        \A d \in BlankDeclarations(SelectedItem(i)) :
            /\ IsReport
            /\ ~ \E n \in DOMAIN analysis.interactions :
                    /\ analysis.interactions[n].from = SelectedItem(i).name
                    /\ analysis.interactions[n].effect = d.effect

\* the names of the selected items that pass a test, in selection order
NamesWhere(Test(_)) ==
    LET Passes(id) == Test(ItemRecord(id))
        passing == SelectSeq(SelectedIds, Passes)
    IN  [n \in DOMAIN passing |-> ItemRecord(passing[n]).name]

MentionedIn(text, word) == includes(toLowerCase(text), word)

StatedMedication(a) == \E k \in DOMAIN a.categories : a.categories[k] = "medication"

StatedCholinergic(a) ==
    \/ a.id = "huperzine-a"
    \/ MentionedIn(a.mechanismOfAction, <<"a", "c", "e", "t", "y", "l", "c", "h", "o", "l", "i", "n", "e", "s", "t", "e", "r", "a", "s", "e">>)

StatedStimulant(a) == a.id \in {"elvanse", "ritalin"}

StatedSerotonergic(a) ==
    \/ a.id = "trazodone"
    \/ MentionedIn(a.mechanismOfAction, <<"s", "e", "r", "o", "t", "o", "n", "i", "n">>)
    \/ MentionedIn(a.mechanismOfAction, <<"5", "-", "h", "t">>)

\* the one warning of a count rule when it fires
If(fires, severity, rule, names) ==
    IF fires THEN << [severity |-> severity, rule |-> rule, names |-> names] >> ELSE << >>

\* the severe records of the interactions of the report, in their order
SevereRecords ==
    LET Severe(r) == r.severity = "severe"
    IN  SelectSeq(analysis.interactions, Severe)

\* C19: the warnings are the outputs of the rules in rule order: the
\* prescription warning, one severe warning for each severe interaction
\* record of the report (none for a moderate or mild one), then the
\* multi-cholinergic, multi-stimulant, multi-serotonergic and large-selection
\* warnings, each rule giving its output whatever the rules before it gave,
\* and the list is not sorted by severity.
C19_RuleOrder ==
    IsReport =>
        analysis.warnings =
               If(Len(NamesWhere(StatedMedication)) > 0, "severe", "prescription",
                  NamesWhere(StatedMedication))
            \o [n \in DOMAIN SevereRecords |->
                   [severity |-> "severe", rule |-> "interaction",
                    names |-> <<SevereRecords[n].from, SevereRecords[n].to>>,
                    effect |-> SevereRecords[n].effect]]
            \o If(Len(NamesWhere(StatedCholinergic)) > 1, "moderate", "cholinergic",
                  NamesWhere(StatedCholinergic))
            \o If(Len(NamesWhere(StatedStimulant)) > 1, "severe", "stimulant",
                  NamesWhere(StatedStimulant))
            \o If(Len(NamesWhere(StatedSerotonergic)) > 2, "moderate", "serotonergic",
                  NamesWhere(StatedSerotonergic))
            \o If(Len(selectedSupplements) > 10, "mild", "large-stack", << >>)

\* a moderate warning stands before a severe one, and a moderate interaction
\* record has no warning
C19_Witness ==
    /\ IsReport
    /\ SelectedIds = <<"elvanse", "ritalin", "trazodone", "huperzine-a", "galantamine",
                       "5-htp", "st-johns-wort">>
    /\ [n \in DOMAIN analysis.warnings |-> analysis.warnings[n].rule] =
          <<"prescription", "interaction", "interaction", "interaction",
            "cholinergic", "stimulant", "serotonergic">>
    /\ \E n \in DOMAIN analysis.interactions : analysis.interactions[n].severity = "moderate"

\* C20: each count rule gives exactly one warning at its threshold and none
\* below it: the prescription rule one severe warning naming all medication
\* items iff there is at least one; the multi-cholinergic rule one moderate
\* warning iff more than one item is cholinergic; the multi-serotonergic rule
\* one moderate warning iff more than two items are serotonergic; the
\* large-selection rule one mild warning iff more than 10 items are selected.
C20_Thresholds ==
    IsReport =>
        /\ WarningsOf("prescription") =
              If(Len(NamesWhere(StatedMedication)) >= 1, "severe", "prescription",
                 NamesWhere(StatedMedication))
        /\ Len(WarningsOf("cholinergic")) =
              (IF Len(NamesWhere(StatedCholinergic)) > 1 THEN 1 ELSE 0)
        /\ Len(WarningsOf("serotonergic")) =
              (IF Len(NamesWhere(StatedSerotonergic)) > 2 THEN 1 ELSE 0)
        /\ Len(WarningsOf("large-stack")) =
              (IF Len(selectedSupplements) > 10 THEN 1 ELSE 0)
        /\ \A n \in DOMAIN analysis.warnings :
              /\ analysis.warnings[n].rule \in {"cholinergic", "serotonergic"} =>
                    analysis.warnings[n].severity = "moderate"
              /\ analysis.warnings[n].rule = "large-stack" =>
                    analysis.warnings[n].severity = "mild"

C20_Witness ==
    /\ IsReport
    /\ Len(selectedSupplements) = 11
    /\ Len(WarningsOf("large-stack")) = 1
    /\ Len(WarningsOf("serotonergic")) = 1
    /\ Len(WarningsOf("cholinergic")) = 1
    /\ Len(WarningsOf("prescription")) = 1

\* the thresholds from below: ten items, two of them serotonergic
C20_WitnessBelow ==
    /\ IsReport
    /\ Len(selectedSupplements) = 10
    /\ Len(NamesWhere(StatedSerotonergic)) = 2
    /\ WarningsOf("large-stack") = << >>
    /\ WarningsOf("serotonergic") = << >>

(***************************************************************************)
(* Claims about the evidence summary (checked under SpecLarge and Spec)    *)
(***************************************************************************)
SelectedScore(i) == calculateScore(SelectedItem(i).evidence)

\* the place of the selected item i when the items are listed by falling
\* score, items of equal score in selection order
DescRank(i) ==
    1 + Cardinality({j \in DOMAIN selectedSupplements :
                        \/ SelectedScore(j) > SelectedScore(i)
                        \/ SelectedScore(j) = SelectedScore(i) /\ j < i})

AtRank(p) == CHOOSE i \in DOMAIN selectedSupplements : DescRank(i) = p

\* what the summary shows of the selected item i
SummaryEntry(i) == [name |-> SelectedItem(i).name, assessment |-> assess(SelectedItem(i).evidence)]

TopCount == IF Len(selectedSupplements) < 3 THEN Len(selectedSupplements) ELSE 3

Strongest == [p \in 1 .. TopCount |-> SummaryEntry(AtRank(p))]

\* the entries of the (up to) three items of lowest score
Bottom == {SummaryEntry(AtRank(Len(selectedSupplements) + 1 - p)) : p \in 1 .. TopCount}

\* C21 as stated: strongest holds the (up to) 3 items of highest score in
\* descending score order, and weakest holds the (up to) 3 items of lowest
\* score with the least weak of them first and the weakest last, that is
\* with scores that never rise along the list.
C21_LeastWeakFirst ==
    IsReport =>
        LET weakest == analysis.evidence.weakest
        IN  /\ analysis.evidence.strongest = Strongest
            /\ Len(weakest) = TopCount
            /\ {weakest[p] : p \in DOMAIN weakest} = Bottom
            /\ \A p, q \in DOMAIN weakest :
                  p < q => weakest[p].assessment.score >= weakest[q].assessment.score

\* C21 (amended): strongest holds the (up to) 3 items of highest score in
\* descending score order, and weakest holds the (up to) 3 items of lowest
\* score with the weakest first and the least weak of them last: weakest[p]
\* is the item p-th from the end of the descending order.
C21_WeakestFirst ==
    IsReport =>
        /\ analysis.evidence.strongest = Strongest
        /\ analysis.evidence.weakest =
              [p \in 1 .. TopCount |-> SummaryEntry(AtRank(Len(selectedSupplements) + 1 - p))]

\* more than three items, the three weakest of three different scores, and
\* an item among the strongest that is not among the weakest
C21_Witness ==
    /\ IsReport
    /\ Len(selectedSupplements) > 3
    /\ LET weakest == analysis.evidence.weakest
       IN  /\ weakest[1].assessment.score < weakest[2].assessment.score
           /\ weakest[2].assessment.score < weakest[3].assessment.score
           /\ analysis.evidence.strongest[1] \notin {weakest[p] : p \in DOMAIN weakest}

\* the sum of a raw count over the items at a set of positions of the
\* selection, an absent count taken as 0
RECURSIVE CountSum(_, _)
CountSum(positions, f) ==
    IF positions = {} THEN 0
    ELSE LET i == CHOOSE j \in positions : TRUE
         IN  CountOf(SelectedItem(i).evidence, f) + CountSum(positions \ {i}, f)

TierNames == {"S", "A", "B", "C", "D"}

\* C22: for every non-empty selection the evidence summary has avgScore =
\* round(mean of the items' scores), which lies between the lowest and the
\* highest item score; tierInfo = getTier(avgScore); tallies per tier over
\* S, A, B, C, D that sum to the number of selected items; and totals that
\* are the sums of the items' raw counts.  avgScore is fixed by the item
\* scores alone, the totals have no part in it.
C22_Summary ==
    (IsReport /\ selectedSupplements # << >>) =>
        LET all == DOMAIN selectedSupplements
            n == Len(selectedSupplements)
            total == ScoreSum(all)
            ev == analysis.evidence
        IN  /\ 2 * n * ev.avgScore - n <= 2 * total
            /\ 2 * total < 2 * n * ev.avgScore + n
            /\ \E i \in all : SelectedScore(i) <= ev.avgScore
            /\ \E i \in all : SelectedScore(i) >= ev.avgScore
            /\ ev.tierInfo = getTier(ev.avgScore)
            /\ DOMAIN ev.tiers = TierNames
            /\ \A t \in TierNames :
                  ev.tiers[t] = Cardinality({i \in all : assess(SelectedItem(i).evidence).tier = t})
            /\ ev.tiers["S"] + ev.tiers["A"] + ev.tiers["B"] + ev.tiers["C"] + ev.tiers["D"] = n
            /\ ev.totals = [totalStudies |-> CountSum(all, "totalStudies"),
                            totalHuman   |-> CountSum(all, "humanStudies"),
                            totalRCTs    |-> CountSum(all, "rcts"),
                            totalMeta    |-> CountSum(all, "metaAnalyses"),
                            totalSR      |-> CountSum(all, "systematicReviews")]

\* three items of different scores, one of them without some of its counts;
\* the mean is not a whole number and is rounded up
C22_Witness ==
    /\ IsReport
    /\ Len(selectedSupplements) = 3
    /\ IsSelected("magnesium")
    /\ LET ev == analysis.evidence
           total == ScoreSum(DOMAIN selectedSupplements)
       IN  /\ 3 * ev.avgScore > total
           /\ \E i \in DOMAIN selectedSupplements : SelectedScore(i) < ev.avgScore
           /\ \E i \in DOMAIN selectedSupplements : SelectedScore(i) > ev.avgScore
           /\ Cardinality({t \in TierNames : ev.tiers[t] > 0}) >= 2
           /\ ev.totals.totalStudies > 0

KnownSeverities == {"mild", "moderate", "severe"}

\* C23: an interaction record whose severity is none of mild, moderate and
\* severe raises no error and is sorted into the last bucket: in the
\* interactions list it comes after every record whose severity is severe,
\* moderate or mild.
C23_UnknownSeverityLast ==
    IsReport =>
        LET recs == analysis.interactions
        IN  \A i, j \in DOMAIN recs :
                (recs[i].severity \notin KnownSeverities /\ recs[j].severity \in KnownSeverities)
                    => j < i

\* the covered categories and their ratings; none when nothing is selected
Ratings(a) ==
    IF a.kind = "report"
    THEN [id \in DOMAIN a.categoryCoverage |-> a.categoryCoverage[id].rating]
    ELSE << >>

\* one item is appended to the selection
OneMoreItem ==
    /\ Len(selectedSupplements') = Len(selectedSupplements) + 1
    /\ SubSeq(selectedSupplements', 1, Len(selectedSupplements)) = selectedSupplements

\* C30: category coverage is monotone in the selection: when one more
\* catalog item is added, every category that was covered stays covered and
\* no category's rating goes down; and every covered category has a rating
\* of at least 2.
C30_CoverageMonotone ==
    /\ [](\A id \in DOMAIN Ratings(analysis) : Ratings(analysis)[id] >= 2)
    /\ [][OneMoreItem /\ analysis'.kind = "report" =>
            \A id \in DOMAIN Ratings(analysis) :
                /\ id \in DOMAIN Ratings(analysis')
                /\ Ratings(analysis')[id] >= Ratings(analysis)[id]]_vars

\* a third item was added to two: one category's rating went up and reached
\* the cap of 10, another kept its rating, and a category is covered for the
\* first time
C30_Witness ==
    /\ IsReport
    /\ Len(selectedSupplements) = 3
    /\ LET before == Report(SubSeq(selectedSupplements, 1, 2)).categoryCoverage
           after == analysis.categoryCoverage
       IN  /\ \E id \in DOMAIN before :
                 after[id].rating > before[id].rating /\ after[id].rating = 10
           /\ \E id \in DOMAIN after : id \notin DOMAIN before
           /\ \E id \in DOMAIN before : after[id].rating = before[id].rating

(***************************************************************************)
(* Claims about the selection and the saved stacks (checked under          *)
(* SpecStacks)                                                             *)
(***************************************************************************)
\* the place of an id in a list of ids, 0 when it is not there
PlaceIn(ids, id) ==
    IF \E i \in DOMAIN ids : ids[i] = id
    THEN CHOOSE i \in DOMAIN ids : ids[i] = id /\ \A j \in DOMAIN ids : ids[j] = id => i <= j
    ELSE 0

InCatalog(id) == \E i \in DOMAIN allSupplements : allSupplements[i] = id

\* the ids of a list that the item table has, in the order of the list
CatalogIdsOf(ids) == SelectSeq(ids, InCatalog)

\* the selection after the step has the ids that stay in the order they had,
\* and the ids that are new after every id that stays
KeepsInsertionOrder ==
    \A a, b \in SelectedIdSet' :
        LET before == SelectedIds
            after == SelectedIds'
        IN  /\ (PlaceIn(before, a) # 0 /\ PlaceIn(before, b) # 0 /\
                    PlaceIn(before, a) < PlaceIn(before, b))
                => PlaceIn(after, a) < PlaceIn(after, b)
            /\ (PlaceIn(before, a) # 0 /\ PlaceIn(before, b) = 0)
                => PlaceIn(after, a) < PlaceIn(after, b)

\* the selection after the step is a saved stack, inserted anew in its order
InsertsSavedStack ==
    \E k \in DOMAIN savedStacks :
        SelectedIds' = CatalogIdsOf(savedStacks[k].supplementIds)

C25_UnknownIdsDropped ==
    /\ [](/\ \A id \in SelectedIdSet : InCatalog(id)
          /\ analysis # Throw
          /\ IsReport =>
                \A n \in DOMAIN analysis.synergies :
                    \A k \in DOMAIN analysis.synergies[n].ids :
                        InCatalog(analysis.synergies[n].ids[k]))
    /\ [][\A k \in DOMAIN savedStacks :
            \/ SelectedIds' = CatalogIdsOf(savedStacks[k].supplementIds)
            \/ ~loadStack(savedStacks[k].id)]_vars

\* the stored stack with coenzyme-q10 is loaded: glycine and nac are
\* selected in that order, the rule of glycine and nac has fired and the
\* rule of nac and coenzyme-q10 has not
C25_Witness ==
    /\ IsReport
    /\ currentStackId = CustomId(0)
    /\ savedStacks = <<OldStack>>
    /\ SelectedIds = <<"glycine", "nac">>
    /\ expandedConfigId = NullId
    /\ Len(analysis.synergies) = 1
    /\ analysis.synergies[1].name = "GlyNAC Protocol"

\* a stack is saved in this step: only then does the clock move on
SavesAStack == clock' # clock

\* what storage holds is the text of this list
Persisted(stacks) == localStorage.kind = "text" /\ localStorage.value = stacks

\* after the step, storage holds the text of the saved list
PersistedAfter == localStorage'.kind = "text" /\ localStorage'.value = savedStacks'

StoredStacks == IF localStorage.kind = "text" THEN localStorage.value ELSE << >>

\* the config the list holds for an item of a stack, with the defaults for
\* what it does not hold
ConfigIn(stacks, stackId, id) ==
    LET stack == stacks[CHOOSE k \in DOMAIN stacks : stacks[k].id = stackId]
    IN  IF "supplementConfigs" \in DOMAIN stack /\ id \in DOMAIN stack.supplementConfigs
        THEN stack.supplementConfigs[id]
        ELSE defaultConfig

\* C26: a saved stack changes only when a stack is saved or deleted: an edit
\* of a selected item's config after the save leaves supplementConfigs in
\* every entry of savedStacks as it was; hence what deleteStack of another
\* stack writes to storage has the remaining stacks as storage had them
\* since their last save, and loadStack selects the items with the config
\* values that were saved.
C26_SavedOnlyBySave ==
    [][/\ savedStacks' # savedStacks =>
             SavesAStack \/ \E stackId \in StackIds : deleteStack(stackId)
       /\ \A stackId \in StackIds :
             deleteStack(stackId) =>
                \A k \in DOMAIN savedStacks' :
                    \E j \in DOMAIN StoredStacks : StoredStacks[j] = savedStacks'[k]
       /\ \A stackId \in StackIds :
             ((\E k \in DOMAIN savedStacks : savedStacks[k].id = stackId) /\ loadStack(stackId))
                => \A i \in DOMAIN selectedSupplements' :
                      selectedSupplements'[i].config =
                          ConfigIn(StoredStacks, stackId, selectedSupplements'[i].supplement)]_vars

\* C27: whatever is saved, loaded, deleted, cleared, added and removed,
\* currentStackId is null or the id of an entry of savedStacks, and
\* currentStackName is empty whenever currentStackId is null.
C27_CurrentIsSaved ==
    /\ currentStackId = NullId \/ \E k \in DOMAIN savedStacks : savedStacks[k].id = currentStackId
    /\ currentStackId = NullId => currentStackName = ""

\* the selection was saved as a second stack, which is the current one
C27_Witness ==
    /\ Len(savedStacks) = 2
    /\ savedStacks[1] = OldStack
    /\ currentStackId = CustomId(1)
    /\ savedStacks[2].id = currentStackId
    /\ currentStackName = "A"
    /\ savedStacks[2].name = "A"

\* the stored stack was loaded, saved and deleted, and items were added again
C27_WitnessDeleted ==
    /\ clock = 2
    /\ Persisted(<< >>)
    /\ savedStacks = << >>
    /\ currentStackId = NullId
    /\ selectedSupplements # << >>

C28_WitnessAppended ==
    /\ Len(savedStacks) = 2
    /\ savedStacks[1] = OldStack
    /\ savedStacks[2].id = CustomId(1)
    /\ savedStacks[2].createdAt = 1
    /\ Persisted(savedStacks)

\* C29: deleteStack(id), for the id of a saved stack, removes the saved
\* stacks with that id and no other,
\* and writes the list to storage; when id is not the current stack id the
\* selection, currentStackId and currentStackName stay as they were; when it
\* is, the selection is emptied and currentStackId and currentStackName are
\* reset, and the analysis is the empty result.
C29_DeleteStack ==
    [][\A stackId \in {savedStacks[k].id : k \in DOMAIN savedStacks} :
        deleteStack(stackId) =>
            /\ \A k \in DOMAIN savedStacks' : savedStacks'[k].id # stackId
            /\ LET Others(s) == s.id # stackId
               IN  savedStacks' = SelectSeq(savedStacks, Others)
            /\ PersistedAfter
            /\ IF currentStackId = stackId
               THEN /\ selectedSupplements' = << >>
                    /\ currentStackId' = NullId
                    /\ currentStackName' = ""
                    /\ analysis' = Null
               ELSE /\ selectedSupplements' = selectedSupplements
                    /\ currentStackId' = currentStackId
                    /\ currentStackName' = currentStackName]_vars

\* the current stack, the second of two, was deleted
C29_Witness ==
    /\ clock = 2
    /\ savedStacks = <<OldStack>>
    /\ Persisted(<<OldStack>>)
    /\ currentStackId = NullId
    /\ selectedSupplements = << >>
    /\ expandedConfigId # NullId

\* the stored stack was deleted while another stack was the current one
C29_WitnessOther ==
    /\ Len(savedStacks) = 1
    /\ currentStackId = CustomId(1)
    /\ savedStacks[1].id = CustomId(1)
    /\ Persisted(savedStacks)
    /\ selectedSupplements # << >>

\* C6: analyzeStack returns a report for every non-empty selection of catalog
\* items, also when items lack aliases, mechanism text, benefits, side
\* effects, evidence, or the substance of an interaction.
C6_NeverThrows ==
    selectedSupplements # << >> => IsReport

====
